---- MODULE Spec2Model ----
(***************************************************************************)
(* A model of the DSAL positional IO core (dstore_base.c) over the CORTX   *)
(* backend plugin (cortx_dstore.c).                                        *)
(*                                                                         *)
(* The object is a row of backend blocks; a block that was never written  *)
(* is a hole.  One caller drives the facade.  Every facade call is the     *)
(* composition of the steps of the aligned IO primitives (init, submit,    *)
(* backend completion, wait, fini) and of the local computation between    *)
(* them; Spec takes a whole call as one action, SpecSteps takes the steps  *)
(* one by one and adds the asynchronous operation API.                     *)
(***************************************************************************)
EXTENDS Integers, Sequences, FiniteSets, TLC

\* ------------------------------------------------------------- bounds
\* Block size in bytes (the tests use 4096) and object length in blocks.
BS == 3
NB == 3
\* Mutating calls (pwrite, shrinking resize) per behaviour of Spec.
MaxWrites == 2
\* DSAL_MAX_IO_SIZE in blocks (1 MiB is 256 blocks of 4096 bytes).
MaxIoBlocks == 1
\* Operation records the backend can hold at a time.
MaxOps == 2

\* Mutating calls, and the bytes of the object the caller works on, in the
\* step-wise program.
MaxStepWrites == 1

MaxStepBytes == 4

\* The longest dstore.type value tried, and the object ids of the store.
MaxTypeLen == 6

MaxOids == 2

\* The DataStore instances a caller may pass to dstore_obj_open.
MaxDstores == 2

\* The operations a caller starts on one handle.
MaxHandleOps == 3

\* How many times the block number of an offset may pass the 32-bit range.
MaxArithWraps == 1
\* With faults: mutating calls of the caller, the bytes its calls reach, and
\* the last fault opportunity of a call at which the environment may fail.
MaxFaultWrites == 2
MaxFaultBytes == 6
MaxFaultAt == 26
MaxFaultReadBytes == 7
\* Two callers: the calls each makes and the bytes its calls reach.
MaxTwoCalls == 1
MaxTwoBytes == 3
\* Two callers on one object: the rounds of concurrent writes they make.
MaxSharedRounds == 2
\* Termination: the fault opportunity at which a call may be failed.
MaxLiveAt == 6

\* ------------------------------------------------- program constants
ENOENT == 2
ENOMEM == 12
EINVAL == 22
EIO == 5
EEXIST == 17
\* uint32_t arithmetic is modular.  TLC's integers end at 2^31 - 1, so the
\* model's word is scaled: W32 stands for 2^32 and W32 * W32 for 2^64.
W32 == 1024

DSAL_MAX_IO_SIZE == MaxIoBlocks * BS

ObjBytes == NB * BS
Blocks == 0 .. (NB - 1)
Slots == 1 .. MaxOps

\* A byte value no payload and no zero-fill produces: the caller's read
\* buffer starts filled with it.
Poison == 2 * MaxWrites + 1

U32(x) == x % W32

\* A value stored in an int: the low 32 bits, the top one the sign.
I32(x) == IF U32(x) >= W32 \div 2 THEN U32(x) - W32 ELSE U32(x)

Min(a, b) == IF a < b THEN a ELSE b

Max(a, b) == IF a < b THEN b ELSE a

\* ------------------------------------------------------------ buffers
\* A buffer is a sequence of bytes; positions are counted from 0 as in C.
Fill(n, v) == [i \in 1 .. n |-> v]

\* calloc(n, 1)
Zeros(n) == Fill(n, 0)

\* buf[pos .. pos+n)
BufGet(buf, pos, n) == [i \in 1 .. n |-> buf[pos + i]]

\* memcpy(buf + pos, data, Len(data)).  A copy past the end of buf grows the
\* sequence, so that an overrun stays visible.
BufPut(buf, pos, data) ==
    [i \in 1 .. Max(Len(buf), pos + Len(data)) |->
        IF i > pos /\ i <= pos + Len(data) THEN data[i - pos]
        ELSE IF i <= Len(buf) THEN buf[i]
        ELSE Poison]

\* The n-th write's payload: bytes that no other write and no zero-fill uses.
Payload(n, count) == [i \in 1 .. count |-> 2 * n - 1 + ((i - 1) % 2)]

\* ------------------------------------------------------------ backend
\* The object store: block -> its BS bytes, or <<>> for a never-written block.
FreshObj == [b \in Blocks |-> <<>>]

BlocksOf(off, size) == { b \in Blocks : b * BS >= off /\ b * BS < off + size }

\* The byte a reader must see at absolute position p: holes read as zero.
LogicalByte(o, p) ==
    IF o[p \div BS] = <<>> THEN 0 ELSE o[p \div BS][(p % BS) + 1]

LogicalRange(o, off, n) == [i \in 1 .. n |-> LogicalByte(o, off + i - 1)]

\* M0_OC_READ of [off, off+size): -ENOENT when a block of the range was
\* never written, the stored bytes otherwise.
BackendRead(o, off, size) ==
    IF \E b \in BlocksOf(off, size) : o[b] = <<>>
    THEN [rc |-> -ENOENT, data |-> <<>>]
    ELSE [rc |-> 0, data |-> LogicalRange(o, off, size)]

\* M0_OC_WRITE of data at [off, off+Len(data)).
BackendWrite(o, off, data) ==
    [b \in Blocks |->
        IF b \in BlocksOf(off, Len(data))
        THEN BufGet(data, b * BS - off, BS)
        ELSE o[b]]

\* M0_OC_FREE of [off, off+size): the blocks of the range are given back.
BackendFree(o, off, size) ==
    [b \in Blocks |-> IF b \in BlocksOf(off, size) THEN <<>> ELSE o[b]]

\* ------------------------------------------------------- caller state
\* The one caller of the facade: the call it is in, the frames of the
\* functions on its stack, and its buffers.
\*   rbuf  the caller's read buffer          wbuf  the buffer given to pwrite
\*   tmp   tmpbuf of p{read,write}_unaligned  sbuf  tmp_buf of dstore_obj_shrink
\*   pw, pr, sh, hh  the locals of dstore_pwrite/pwrite_unaligned,
\*                   pread_unaligned, dstore_obj_shrink and
\*                   pread_aligned_handle_holes
\*   req   the arguments of the running pread_aligned/pwrite_aligned
\*   cur   its operation (rop/wop), wrc the rc of its wait
\*   nops, nbs  backend operations initialised and block-size lookups made
\*   fplan  the fault opportunity at which the environment fails (0: none)
\*   pre   the object as it was when the call started
\*   io    buf, data: the pointers of pread_aligned/pwrite_aligned are not
\*         NULL; vec: the state of the vector data points to
\*   ndesc, nrel  descriptors/vectors built and released during the call
\*   nfini        operations finalised during the call
\*   plan         the fault plan the call started with
\*   trace        the operations the call waited for, in order, with their rc
\*   sw           the sub-writes of dstore_obj_shrink that returned, in order
\*   nscr, nhh    scratch buffers allocated, calls of the hole reader made
IdleT ==
    [pc |-> "idle", call |-> "none", offset |-> 0, count |-> 0,
     old |-> 0, new |-> 0, n |-> 0, rc |-> 0,
     rbuf |-> <<>>, wbuf |-> <<>>, tmp |-> <<>>, sbuf |-> <<>>,
     pw |-> [offset |-> 0, count |-> 0, bs |-> 0, from |-> "none"],
     pr |-> [offset |-> 0, count |-> 0, bs |-> 0, buf_pos |-> 0,
             left_bytes |-> 0, right_bytes |-> 0, read_count |-> 0],
     sh |-> [index |-> 0, nr_request |-> 0, tail_size |-> 0, bsize |-> 0,
             offset |-> 0, phase |-> "none"],
     hh |-> [ret |-> "none", phase |-> "none", buf |-> "none", pos |-> 0,
             size |-> 0, off |-> 0, bs |-> 0, i |-> 0],
     req |-> [type |-> "none", buf |-> "none", pos |-> 0, size |-> 0,
              off |-> 0, ret |-> "none"],
     cur |-> 0, wrc |-> 0, nops |-> 0, nbs |-> 0, fplan |-> 0, pre |-> <<>>,
     io |-> [buf |-> FALSE, data |-> FALSE, vec |-> "none"],
     ndesc |-> 0, nrel |-> 0, nfini |-> 0, plan |-> 0, trace |-> <<>>,
     sw |-> <<>>, nscr |-> 0, nhh |-> 0]

GetBuf(t, name) ==
    CASE name = "rbuf" -> t.rbuf
      [] name = "wbuf" -> t.wbuf
      [] name = "tmp" -> t.tmp
      [] OTHER -> <<>>

SetBuf(t, name, val) ==
    CASE name = "rbuf" -> [t EXCEPT !.rbuf = val]
      [] name = "wbuf" -> [t EXCEPT !.wbuf = val]
      [] name = "tmp" -> [t EXCEPT !.tmp = val]
      [] OTHER -> t

\* The environment fails at the fault opportunity the plan names.
FaultHere(t) == t.fplan = 1

Tick(t) == [t EXCEPT !.fplan = IF @ > 0 THEN @ - 1 ELSE 0]

\* The facade call returns rc to the caller.
CallDone(t, rc) == [t EXCEPT !.pc = "done", !.rc = rc]

\* Entry of pread_aligned (type READ) or pwrite_aligned (type WRITE) on
\* buf[pos .. pos+size) at object offset off; ret names the caller to resume.
StartAligned(t, type, buf, pos, size, off, ret) ==
    [t EXCEPT !.pc = "io_init",
              !.req = [type |-> type, buf |-> buf, pos |-> pos, size |-> size,
                       off |-> off, ret |-> ret]]

\* Mutant: the first read of the hole reader is made as a write.
HHCall_write(t, buf, pos, size, off, bs, ret) ==
    StartAligned([t EXCEPT !.hh = [ret |-> ret, phase |-> "first", buf |-> buf,
                                   pos |-> pos, size |-> size, off |-> off,
                                   bs |-> bs, i |-> 0]],
                 "WRITE", buf, pos, size, off, "hh")

\* Entry of pread_aligned_handle_holes: the first, whole-range read.
HHCall(t, buf, pos, size, off, bs, ret) ==
    StartAligned([t EXCEPT !.hh = [ret |-> ret, phase |-> "first", buf |-> buf,
                                   pos |-> pos, size |-> size, off |-> off,
                                   bs |-> bs, i |-> 0],
                           !.nhh = @ + 1],
                 "READ", buf, pos, size, off, "hh")

\* Mutant: a failed calloc goes unnoticed.
CallocFails_unnoticed(t, size) == FALSE

\* calloc cannot give more than PTRDIFF_MAX bytes, and fails when the
\* environment's plan says so.
CallocFails(t, size) == FaultHere(t) \/ size >= (W32 * W32) \div 2

\* ------------------------------------------- dstore_obj_shrink, pwrite
\* dstore_pwrite(obj, offset, count, bs, buf) with buf = t.wbuf, called from
\* the caller ("top") or from dstore_obj_shrink ("shrink").
RECURSIVE dstore_pwrite(_, _, _, _, _)

\* dstore_obj_shrink, label out: free(tmp_buf) and return rc; dstore_obj_resize
\* returns it.
dstore_obj_shrink_out(t, rc) == CallDone([t EXCEPT !.sbuf = <<>>], rc)

\* Mutant: the sub-writes advance by one byte instead of one chunk.
dstore_obj_shrink_write_overlap(t, size, phase) ==
    dstore_pwrite([t EXCEPT !.wbuf = t.sbuf, !.sh.phase = phase],
                  t.sh.offset + t.sh.index, size, t.sh.bsize, "shrink")

\* One zero-fill sub-write of dstore_obj_shrink.
dstore_obj_shrink_write(t, size, phase) ==
    dstore_pwrite([t EXCEPT !.wbuf = t.sbuf, !.sh.phase = phase],
                  t.sh.offset + t.sh.index * DSAL_MAX_IO_SIZE, size,
                  t.sh.bsize, "shrink")

\* Mutant: the tail write of the remainder is left out.
dstore_obj_shrink_loop_notail(t, rc) ==
    IF t.sh.index < t.sh.nr_request
    THEN dstore_obj_shrink_write(t, DSAL_MAX_IO_SIZE, "loop")
    ELSE dstore_obj_shrink_out(t, rc)

\* The for loop of dstore_obj_shrink at its test, then the tail write.
dstore_obj_shrink_loop(t, rc) ==
    IF t.sh.index < t.sh.nr_request
    THEN dstore_obj_shrink_write(t, DSAL_MAX_IO_SIZE, "loop")
    ELSE IF t.sh.tail_size # 0
         THEN dstore_obj_shrink_write(t, t.sh.tail_size, "tail")
         ELSE dstore_obj_shrink_out(t, rc)

\* The sub-write that has just returned rc is noted.
SubWriteReturned(t, rc) ==
    [t EXCEPT !.sw = Append(@, [off |-> t.pw.offset, size |-> t.pw.count,
                                rc |-> rc, ntrace |-> Len(t.trace)])]

\* Mutant: the rc of a sub-write of the loop is not looked at.
dstore_obj_shrink_next_goon(t, rc) ==
    IF t.sh.phase = "tail"
    THEN dstore_obj_shrink_out(SubWriteReturned(t, rc), rc)
    ELSE dstore_obj_shrink_loop(
             [SubWriteReturned(t, rc) EXCEPT !.sh.index = @ + 1], rc)

\* RC_WRAP_LABEL(rc, out, dstore_pwrite, ...) in dstore_obj_shrink: the
\* sub-write returned rc.
dstore_obj_shrink_next(t, rc) ==
    IF rc # 0 \/ t.sh.phase = "tail"
    THEN dstore_obj_shrink_out(SubWriteReturned(t, rc), rc)
    ELSE dstore_obj_shrink_loop(
             [SubWriteReturned(t, rc) EXCEPT !.sh.index = @ + 1], rc)

\* dstore_pwrite returns rc to whoever called it.
dstore_pwrite_return(t, rc) ==
    IF t.pw.from = "shrink" THEN dstore_obj_shrink_next(t, rc)
    ELSE CallDone(t, rc)

\* The block numbers of pwrite_unaligned (uint32_t).
left_blk_num(offset, bs) == U32(offset \div bs)

\* Mutant: the block after an aligned end is counted in.
right_blk_num_nodec(offset, count, bs) == U32((offset + count) \div bs)

right_blk_num(offset, count, bs) ==
    IF (offset + count) % bs = 0
    THEN U32(U32((offset + count) \div bs) - 1)
    ELSE U32((offset + count) \div bs)

num_of_blks(offset, count, bs) ==
    U32(right_blk_num(offset, count, bs) - left_blk_num(offset, bs) + 1)

\* uint32_t buf_pos = offset - (left_blk_num * bs), of pwrite_unaligned.
pwrite_unaligned_buf_pos(offset, bs) ==
    U32(offset - left_blk_num(offset, bs) * bs)

\* uint32_t left_bytes = offset - (left_blk_num * bs), of pread_unaligned.
pread_unaligned_left_bytes(offset, bs) ==
    U32(offset - left_blk_num(offset, bs) * bs)

\* uint32_t cont_blk_count = count/bs, of pread_unaligned.
pread_unaligned_cont_blk_count(count, bs) == U32(count \div bs)

\* int count = buf_size/bs, of pread_aligned_handle_holes.
pread_aligned_handle_holes_count(buf_size, bs) == I32(buf_size \div bs)

\* pwrite_unaligned, label out: free(tmpbuf), return rc.
pwrite_unaligned_out(t, rc) == dstore_pwrite_return([t EXCEPT !.tmp = <<>>], rc)

\* Mutant: the payload is copied to the start of tmpbuf (buf_pos forgotten).
pwrite_unaligned_copy_at0(t) ==
    LET bs == t.pw.bs
        L == left_blk_num(t.pw.offset, bs)
        N == num_of_blks(t.pw.offset, t.pw.count, bs)
        t1 == [t EXCEPT !.tmp = BufPut(@, 0, BufGet(t.wbuf, 0, t.pw.count))]
    IN StartAligned(t1, "WRITE", "tmp", 0, N * bs, L * bs, "pwu_write")

\* Mutant: the scratch blocks are cleared before the payload is copied in.
pwrite_unaligned_copy_cleared(t) ==
    LET bs == t.pw.bs
        L == left_blk_num(t.pw.offset, bs)
        N == num_of_blks(t.pw.offset, t.pw.count, bs)
        buf_pos == pwrite_unaligned_buf_pos(t.pw.offset, bs)
        t1 == [t EXCEPT !.tmp = BufPut(Zeros(N * bs), buf_pos,
                                       BufGet(t.wbuf, 0, t.pw.count))]
    IN StartAligned(t1, "WRITE", "tmp", 0, N * bs, L * bs, "pwu_write")

\* pwrite_unaligned: memcpy of the payload into tmpbuf, then the one aligned
\* write of num_of_blks blocks.
pwrite_unaligned_copy(t) ==
    LET bs == t.pw.bs
        L == left_blk_num(t.pw.offset, bs)
        N == num_of_blks(t.pw.offset, t.pw.count, bs)
        buf_pos == pwrite_unaligned_buf_pos(t.pw.offset, bs)
        t1 == [t EXCEPT !.tmp = BufPut(@, buf_pos, BufGet(t.wbuf, 0, t.pw.count))]
    IN StartAligned(t1, "WRITE", "tmp", 0, N * bs, L * bs, "pwu_write")

\* pwrite_unaligned: the right-edge read returned rc.
pwrite_unaligned_right_read(t, rc) ==
    IF rc < 0 THEN pwrite_unaligned_out(t, rc) ELSE pwrite_unaligned_copy(t)

\* Mutant: the right-most block is read also when it is the left-most one.
pwrite_unaligned_right_single(t) ==
    LET bs == t.pw.bs
        R == right_blk_num(t.pw.offset, t.pw.count, bs)
        N == num_of_blks(t.pw.offset, t.pw.count, bs)
    IN IF (t.pw.offset + t.pw.count) % bs # 0
       THEN HHCall(t, "tmp", (N - 1) * bs, bs, R * bs, bs, "pwu_right")
       ELSE pwrite_unaligned_copy(t)

\* pwrite_unaligned: "IO is not already right aligned, read right most block".
pwrite_unaligned_right(t) ==
    LET bs == t.pw.bs
        L == left_blk_num(t.pw.offset, bs)
        R == right_blk_num(t.pw.offset, t.pw.count, bs)
        N == num_of_blks(t.pw.offset, t.pw.count, bs)
    IN IF (t.pw.offset + t.pw.count) % bs # 0 /\ L # R
       THEN HHCall(t, "tmp", (N - 1) * bs, bs, R * bs, bs, "pwu_right")
       ELSE pwrite_unaligned_copy(t)

\* Mutant: the rc of the left-edge read is not looked at.
pwrite_unaligned_left_read_ignore(t, rc) == pwrite_unaligned_right(t)

\* pwrite_unaligned: the left-edge read returned rc.
pwrite_unaligned_left_read(t, rc) ==
    IF rc < 0 THEN pwrite_unaligned_out(t, rc) ELSE pwrite_unaligned_right(t)

\* pwrite_unaligned from its entry: calloc of the scratch blocks, then "IO is
\* not already left aligned, read left most block".
pwrite_unaligned(t) ==
    LET bs == t.pw.bs
        L == left_blk_num(t.pw.offset, bs)
        N == num_of_blks(t.pw.offset, t.pw.count, bs)
    IN IF CallocFails(t, N * bs)
       THEN dstore_pwrite_return(Tick(t), -ENOMEM)
       ELSE LET t1 == [Tick(t) EXCEPT !.tmp = Zeros(N * bs), !.nscr = @ + 1]
            IN IF t.pw.offset % bs # 0
               THEN HHCall(t1, "tmp", 0, bs, L * bs, bs, "pwu_left")
               ELSE pwrite_unaligned_right(t1)

\* Mutant: every write takes the unaligned path.
dstore_pwrite_always_unaligned(t, offset, count, bs, from) ==
    pwrite_unaligned([t EXCEPT !.pw = [offset |-> offset, count |-> count,
                                       bs |-> bs, from |-> from]])

\* __dstore_pwrite: the aligned path writes the caller's buffer as it is.
dstore_pwrite(t, offset, count, bs, from) ==
    LET t1 == [t EXCEPT !.pw = [offset |-> offset, count |-> count,
                                bs |-> bs, from |-> from]]
    IN IF count % bs = 0 /\ offset % bs = 0
       THEN StartAligned(t1, "WRITE", "wbuf", 0, count, offset, "pw_al")
       ELSE pwrite_unaligned(t1)

\* dstore_get_bsize: the backend's block size, or its negative error, which
\* the size_t of the caller holds modulo 2^64.
dstore_get_bsize(t) == IF FaultHere(t) THEN W32 * W32 - EIO ELSE BS

\* dstore_obj_shrink from its entry to its first sub-write.
dstore_obj_shrink(t) ==
    LET bsize == dstore_get_bsize(t)
        t0 == [Tick(t) EXCEPT !.nbs = @ + 1]
        count == t.old - t.new
        nr_request == count \div DSAL_MAX_IO_SIZE
        t1 == [t0 EXCEPT !.sh = [index |-> 0, nr_request |-> nr_request,
                                 tail_size |-> count - nr_request * DSAL_MAX_IO_SIZE,
                                 bsize |-> bsize, offset |-> t.new,
                                 phase |-> "loop"]]
    IN IF CallocFails(t1, DSAL_MAX_IO_SIZE)
       THEN dstore_obj_shrink_out(Tick(t1), -ENOMEM)
       ELSE dstore_obj_shrink_loop(
                [Tick(t1) EXCEPT !.sbuf = Zeros(DSAL_MAX_IO_SIZE),
                                 !.nscr = @ + 1], 0)

\* Mutant: equal sizes are taken for a shrink.
dstore_obj_resize_strict(t) ==
    IF t.old < t.new THEN CallDone(t, 0) ELSE dstore_obj_shrink(t)

\* dstore_obj_resize: nothing to do unless the object shrinks.
dstore_obj_resize(t) ==
    IF t.old <= t.new THEN CallDone(t, 0) ELSE dstore_obj_shrink(t)

\* ------------------------------------------------------ pread_unaligned
\* pread_unaligned, label out: free(tmpbuf), return rc; dstore_pread returns it.
pread_unaligned_out(t, rc) == CallDone([t EXCEPT !.tmp = <<>>], rc)

\* Mutant: the whole right most block is copied to the caller's buffer.
pread_unaligned_right_read_whole(t, rc) ==
    IF rc < 0 THEN pread_unaligned_out(t, rc)
    ELSE pread_unaligned_out(
             [t EXCEPT !.rbuf = BufPut(@, t.pr.buf_pos,
                                       BufGet(t.tmp, 0, t.pr.bs))], rc)

\* pread_unaligned: the read of the right most block returned rc.
pread_unaligned_right_read(t, rc) ==
    IF rc < 0 THEN pread_unaligned_out(t, rc)
    ELSE pread_unaligned_out(
             [t EXCEPT !.rbuf = BufPut(@, t.pr.buf_pos,
                                       BufGet(t.tmp, 0, t.pr.count))], rc)

\* pread_unaligned: "Io is already right aligned", or "read the right most
\* block".
pread_unaligned_right(t) ==
    IF t.pr.count = 0 THEN pread_unaligned_out(t, 0)
    ELSE HHCall(t, "tmp", 0, t.pr.bs, t.pr.offset, t.pr.bs, "pru_right")

\* Mutant: the rc of the read of the continuous blocks is not looked at.
pread_unaligned_cont_read_ignore(t, rc) ==
    LET cont_blk_count == pread_unaligned_cont_blk_count(t.pr.count, t.pr.bs)
    IN pread_unaligned_right(
           [t EXCEPT !.pr.count = @ - cont_blk_count * t.pr.bs,
                     !.pr.offset = @ + cont_blk_count * t.pr.bs,
                     !.pr.buf_pos = U32(@ + cont_blk_count * t.pr.bs)])

\* pread_unaligned: the read of the continuous aligned blocks returned rc.
pread_unaligned_cont_read(t, rc) ==
    LET cont_blk_count == pread_unaligned_cont_blk_count(t.pr.count, t.pr.bs)
    IN IF rc < 0 THEN pread_unaligned_out(t, rc)
       ELSE pread_unaligned_right(
                [t EXCEPT !.pr.count = @ - cont_blk_count * t.pr.bs,
                          !.pr.offset = @ + cont_blk_count * t.pr.bs,
                          !.pr.buf_pos = U32(@ + cont_blk_count * t.pr.bs)])

\* pread_unaligned, label continous_aligned_read.
continous_aligned_read(t) ==
    LET cont_blk_count == pread_unaligned_cont_blk_count(t.pr.count, t.pr.bs)
    IN IF cont_blk_count > 0
       THEN HHCall(t, "rbuf", t.pr.buf_pos, cont_blk_count * t.pr.bs,
                   t.pr.offset, t.pr.bs, "pru_cont")
       ELSE pread_unaligned_right(t)

\* pread_unaligned: the read of the left most block returned rc.
pread_unaligned_left_read(t, rc) ==
    IF rc < 0 THEN pread_unaligned_out(t, rc)
    ELSE LET t1 == [t EXCEPT !.rbuf = BufPut(@, 0, BufGet(t.tmp, t.pr.left_bytes,
                                                         t.pr.read_count))]
         IN IF t.pr.count <= t.pr.right_bytes
            THEN pread_unaligned_out(t1, rc)
            ELSE continous_aligned_read(
                     [t1 EXCEPT !.pr.count = @ - t.pr.read_count,
                                !.pr.offset = @ + t.pr.read_count,
                                !.pr.buf_pos = t.pr.read_count])

\* pread_unaligned from its entry.
pread_unaligned(t) ==
    LET bs == t.pr.bs
        left == left_blk_num(t.pr.offset, bs)
        left_bytes == pread_unaligned_left_bytes(t.pr.offset, bs)
        right_bytes == U32(bs - left_bytes)
        read_count == U32(Min(t.pr.count, right_bytes))
    IN IF CallocFails(t, bs)
       THEN CallDone(Tick(t), -ENOMEM)
       ELSE LET t1 == [Tick(t) EXCEPT !.tmp = Zeros(bs), !.nscr = @ + 1]
            IN IF t.pr.offset % bs = 0 /\ t.pr.count >= bs
               THEN continous_aligned_read(t1)
               ELSE HHCall([t1 EXCEPT !.pr.left_bytes = left_bytes,
                                      !.pr.right_bytes = right_bytes,
                                      !.pr.read_count = read_count],
                           "tmp", 0, bs, left * bs, bs, "pru_left")

\* __dstore_pread: the aligned path reads into the caller's buffer.
dstore_pread(t, offset, count, bs) ==
    LET t1 == [t EXCEPT !.pr = [offset |-> offset, count |-> count, bs |-> bs,
                                buf_pos |-> 0, left_bytes |-> 0,
                                right_bytes |-> 0, read_count |-> 0]]
    IN IF count % bs = 0 /\ offset % bs = 0
       THEN HHCall(t1, "rbuf", 0, count, offset, bs, "pread")
       ELSE pread_unaligned(t1)

\* ------------------------------------------- pread_aligned_handle_holes
\* pread_aligned_handle_holes returns rc to the function that called it.
pread_aligned_handle_holes_return(t, rc) ==
    CASE t.hh.ret = "pwu_left" -> pwrite_unaligned_left_read(t, rc)
      [] t.hh.ret = "pwu_right" -> pwrite_unaligned_right_read(t, rc)
      [] t.hh.ret = "pru_left" -> pread_unaligned_left_read(t, rc)
      [] t.hh.ret = "pru_cont" -> pread_unaligned_cont_read(t, rc)
      [] t.hh.ret = "pru_right" -> pread_unaligned_right_read(t, rc)
      [] OTHER -> CallDone(t, rc)

\* Mutant: every block of the fallback is read to the start of read_buf.
pread_aligned_handle_holes_block_samepos(t, i) ==
    StartAligned([t EXCEPT !.hh.phase = "blk", !.hh.i = i],
                 "READ", t.hh.buf, t.hh.pos, t.hh.bs,
                 t.hh.off + i * t.hh.bs, "hh")

\* "read block one by one": the pread_aligned of block i.
pread_aligned_handle_holes_block(t, i) ==
    StartAligned([t EXCEPT !.hh.phase = "blk", !.hh.i = i],
                 "READ", t.hh.buf, t.hh.pos + i * t.hh.bs, t.hh.bs,
                 t.hh.off + i * t.hh.bs, "hh")

\* Mutant: a missing block is not zero-filled.
pread_aligned_handle_holes_memset_skip(t) == t

\* memset(read_buf + (i * bs), 0, bs)
pread_aligned_handle_holes_memset(t) ==
    SetBuf(t, t.hh.buf,
           BufPut(GetBuf(t, t.hh.buf), t.hh.pos + t.hh.i * t.hh.bs,
                  Zeros(t.hh.bs)))

\* Mutant: the fallback is entered only for a request of several blocks.
pread_aligned_handle_holes_loop_multi(i, count) == i < count /\ count > 1

\* for (i = 0; i < count; i++): the condition of the fallback loop.
pread_aligned_handle_holes_loop(i, count) == i < count

\* Mutant: no rc of a block read is fatal.
pread_aligned_handle_holes_fatal_never(rc) == FALSE

\* if (rc != 0) { if (rc == -ENOENT) memset else return rc; }: the rc of a
\* block read that ends the fallback.
pread_aligned_handle_holes_fatal(rc) == rc # 0 /\ rc # -ENOENT

\* pread_aligned_handle_holes after a pread_aligned of it returned rc: the
\* first read of the whole range, or the read of block i of the fallback.
pread_aligned_handle_holes(t, rc) ==
    LET count == pread_aligned_handle_holes_count(t.hh.size, t.hh.bs)
    IN IF t.hh.phase = "first"
       THEN IF rc = -ENOENT
            THEN IF pread_aligned_handle_holes_loop(0, count)
                 THEN pread_aligned_handle_holes_block(t, 0)
                 ELSE pread_aligned_handle_holes_return(t, 0)
            ELSE pread_aligned_handle_holes_return(t, rc)
       ELSE IF pread_aligned_handle_holes_fatal(rc)
            THEN pread_aligned_handle_holes_return(t, rc)
            ELSE LET t1 == IF rc = -ENOENT
                           THEN pread_aligned_handle_holes_memset(t)
                           ELSE t
                 IN IF pread_aligned_handle_holes_loop(t.hh.i + 1, count)
                    THEN pread_aligned_handle_holes_block(t1, t.hh.i + 1)
                    ELSE pread_aligned_handle_holes_return(t1, 0)

\* pread_aligned or pwrite_aligned returns rc to the function that called it.
AlignedReturn(t, rc) ==
    CASE t.req.ret = "hh" -> pread_aligned_handle_holes(t, rc)
      [] t.req.ret = "pwu_write" -> pwrite_unaligned_out(t, rc)
      [] OTHER -> dstore_pwrite_return(t, rc)

\* ------------------------------------------------- IO operation records
\* struct cortx_io_op: the m0 operation's state and rc, who made it (the
\* facade or the user of dstore_io_op_read/write), its type and its one
\* buffer/extent, and whether dstore_io_op_wait has returned for it and with
\* what (wret).  cb says that base.cb is not NULL; ncb counts the calls of
\* base.cb and cbrc is the op_rc of the last one.
FreeOp ==
    [state |-> "FREE", owner |-> "none", type |-> "none", buf |-> "none",
     pos |-> 0, size |-> 0, off |-> 0, rc |-> 0, waited |-> FALSE, n |-> 0,
     cb |-> FALSE, ncb |-> 0, cbrc |-> 0, wret |-> 0]

Terminal == {"STABLE", "FAILED"}

FreeSlots(ops) == { k \in Slots : ops[k].state = "FREE" }

LowestFree(ops) == CHOOSE k \in FreeSlots(ops) : \A j \in FreeSlots(ops) : k <= j

\* What an operation is made for: d.owner made it, for d.buf[d.pos ..
\* d.pos + d.size) at object offset d.off; d.n numbers a user's payload.
IoDesc(owner, buf, pos, size, off, n) ==
    [owner |-> owner, buf |-> buf, pos |-> pos, size |-> size, off |-> off,
     n |-> n]

\* cortx_ds_io_op_init past its checks: the record is filled, m0_obj_op and
\* m0_op_setup made the operation, which is in state INIT.
cortx_io_op_new(ops, type, cb, d) ==
    [ops EXCEPT ![LowestFree(ops)] =
        [FreeOp EXCEPT !.state = "INIT", !.owner = d.owner, !.type = type,
                       !.buf = d.buf, !.pos = d.pos, !.size = d.size,
                       !.off = d.off, !.n = d.n, !.cb = cb]]

\* Mutant: every operation type is let through.
SupportedType_any(type) == TRUE

\* M0_IN(type, (DSTORE_IO_OP_WRITE, DSTORE_IO_OP_READ, DSTORE_IO_OP_FREE))
SupportedType(type) == type \in {"WRITE", "READ", "FREE"}

\* dstore_io_vec_move(&result->base.data, bvec): the arrays of bvec now
\* belong to the operation and bvec is empty.
dstore_io_vec_move(vec) == "moved"

\* cortx_ds_io_op_init(dobj, type, bvec, cb, cb_ctx, out).  out is the
\* caller's *out (a slot, 0 for NULL), vec the caller's vector ("full", or
\* "moved" once dstore_io_vec_move has emptied it); fail names what the
\* environment refuses: "alloc" M0_ALLOC_PTR, "obj_op" m0_obj_op.
cortx_ds_io_op_init(ops, out, vec, type, cb, d, fail) ==
    IF ~SupportedType(type)
    THEN [rc |-> -EINVAL, ops |-> ops, out |-> out, vec |-> vec]
    ELSE IF fail = "alloc" \/ FreeSlots(ops) = {}
    THEN [rc |-> -ENOMEM, ops |-> ops, out |-> out, vec |-> vec]
    ELSE IF fail = "obj_op"
    THEN [rc |-> -EIO, ops |-> ops, out |-> out,
          vec |-> IF type = "FREE" THEN vec ELSE dstore_io_vec_move(vec)]
    ELSE [rc |-> 0, ops |-> cortx_io_op_new(ops, type, cb, d),
          out |-> LowestFree(ops),
          vec |-> IF type = "FREE" THEN vec ELSE dstore_io_vec_move(vec)]

\* cortx_ds_io_op_submit: m0_op_launch.
cortx_ds_io_op_submit(ops, k) == [ops EXCEPT ![k].state = "SUBMITTED"]

\* cortx_ds_io_op_fini: m0_op_fini, m0_op_free, m0_free(op).
cortx_ds_io_op_fini(ops, k) == [ops EXCEPT ![k] = FreeOp]

\* dstore_io_buf_init: a single-buffer descriptor is built.
dstore_io_buf_init(t) == [t EXCEPT !.io.buf = TRUE, !.ndesc = @ + 1]

\* dstore_io_buf2vec(&buf, &data): the descriptor becomes the vector; buf
\* is NULL afterwards.
dstore_io_buf2vec(t) ==
    [t EXCEPT !.io.buf = FALSE, !.io.data = TRUE, !.io.vec = "full"]

\* dstore_io_vec_fini(data)
dstore_io_vec_fini(t) ==
    [t EXCEPT !.io.data = FALSE, !.io.vec = "none", !.nrel = @ + 1]

\* dstore_io_buf_fini(buf)
dstore_io_buf_fini(t) == [t EXCEPT !.io.buf = FALSE, !.nrel = @ + 1]

\* The composite the steps transform: s.t the caller, s.obj the object,
\* s.ops the operation records.

\* Mutant: the operation is not finalised at label out.
aligned_out_keep_op(s, rc) ==
    LET t2 == IF s.t.io.data THEN dstore_io_vec_fini(s.t) ELSE s.t
        t3 == IF t2.io.buf THEN dstore_io_buf_fini(t2) ELSE t2
    IN [s EXCEPT !.t = AlignedReturn(t3, rc)]

\* Label out of pread_aligned/pwrite_aligned: dstore_io_op_fini if there is
\* an operation, dstore_io_vec_fini if there is a vector, dstore_io_buf_fini
\* if there is a descriptor, and rc goes to the caller.
aligned_out(s, rc) ==
    LET s1 == IF s.t.cur # 0
              THEN [s EXCEPT !.ops = cortx_ds_io_op_fini(s.ops, s.t.cur),
                             !.t.cur = 0, !.t.nfini = @ + 1]
              ELSE s
        t2 == IF s1.t.io.data THEN dstore_io_vec_fini(s1.t) ELSE s1.t
        t3 == IF t2.io.buf THEN dstore_io_buf_fini(t2) ELSE t2
    IN [s1 EXCEPT !.t = AlignedReturn(t3, rc)]

\* pread_aligned/pwrite_aligned up to dstore_io_op_init_and_submit's init:
\* the buffer descriptor, the vector and the operation record are made; each
\* of the four allocations may fail.  The result is the state reached and
\* the rc that takes the path to label out, or 0.
aligned_setup(s) ==
    LET ta == s.t
        tb == dstore_io_buf_init(Tick(ta))
        tc == dstore_io_buf2vec(Tick(tb))
        td == Tick(tc)
        te == Tick(td)
        fail == IF FaultHere(tc) THEN "alloc"
                ELSE IF FaultHere(td) THEN "obj_op" ELSE "none"
        r == cortx_ds_io_op_init(s.ops, 0, tc.io.vec, ta.req.type, FALSE,
                                 IoDesc("facade", ta.req.buf, ta.req.pos,
                                        ta.req.size, ta.req.off, 0), fail)
    IN IF FaultHere(ta)
       THEN [s |-> [s EXCEPT !.t = Tick(ta)], rc |-> -ENOMEM]
       ELSE IF FaultHere(tb)
       THEN [s |-> [s EXCEPT !.t = Tick(tb)], rc |-> -ENOMEM]
       ELSE IF r.rc # 0
       THEN [s |-> [s EXCEPT !.t = [te EXCEPT !.io.vec = r.vec]], rc |-> r.rc]
       ELSE [s |-> [s EXCEPT !.ops = r.ops,
                             !.t = [te EXCEPT !.io.vec = r.vec, !.cur = r.out,
                                              !.pc = "io_submit",
                                              !.nops = @ + 1]],
             rc |-> 0]

\* The first step of pread_aligned/pwrite_aligned: the set-up, and label out
\* when it failed.
DoInit(s) ==
    LET u == aligned_setup(s)
    IN IF u.rc # 0 THEN aligned_out(u.s, u.rc) ELSE u.s

\* Mutant: after the submit the path goes straight to its out label.
DoSubmit_nowait(s) ==
    [s EXCEPT !.ops = cortx_ds_io_op_submit(s.ops, s.t.cur),
              !.t.pc = "io_fini"]

\* dstore_io_op_init_and_submit: the submit, and the operation is handed out.
DoSubmit(s) ==
    [s EXCEPT !.ops = cortx_ds_io_op_submit(s.ops, s.t.cur),
              !.t.pc = "io_wait"]

\* on_oop_executed: a noop.
on_oop_executed(op) == op

\* Mutant: the completion path calls the callback with 0.
on_oop_finished_rc0(op) ==
    IF op.cb THEN [op EXCEPT !.ncb = @ + 1, !.cbrc = 0] ELSE op

\* on_oop_finished: rc = m0_rc(cop); op->base.cb(cb_ctx, op, rc) if there is
\* a callback.
on_oop_finished(op) ==
    IF op.cb THEN [op EXCEPT !.ncb = @ + 1, !.cbrc = op.rc] ELSE op

\* Mutant: a failed operation is only logged.
on_oop_failed_silent(op) == op

\* on_oop_failed
on_oop_failed(op) == on_oop_finished(op)

\* The backend executes operation k: a READ fills the buffer when every block
\* of the range is there, a WRITE stores the buffer's bytes.
DoExecuted(s, k) ==
    LET op == s.ops[k]
        fail == FaultHere(s.t)
        t0 == Tick(s.t)
        r == BackendRead(s.obj, op.off, op.size)
        data == IF op.owner = "facade"
                THEN BufGet(GetBuf(s.t, op.buf), op.pos, op.size)
                ELSE Payload(op.n, op.size)
        s1 == IF fail
              THEN [s EXCEPT !.t = t0, !.ops[k].state = "EXECUTED",
                             !.ops[k].rc = -EIO]
              ELSE IF op.type = "READ"
              THEN [s EXCEPT !.t = IF r.rc = 0 /\ op.owner = "facade"
                                   THEN SetBuf(t0, op.buf,
                                               BufPut(GetBuf(t0, op.buf),
                                                      op.pos, r.data))
                                   ELSE t0,
                             !.ops[k].state = "EXECUTED", !.ops[k].rc = r.rc]
              ELSE IF op.type = "FREE"
              THEN [s EXCEPT !.t = t0,
                             !.obj = BackendFree(s.obj, op.off, op.size),
                             !.ops[k].state = "EXECUTED", !.ops[k].rc = 0]
              ELSE [s EXCEPT !.t = t0,
                             !.obj = BackendWrite(s.obj, op.off, data),
                             !.ops[k].state = "EXECUTED", !.ops[k].rc = 0]
    IN [s1 EXCEPT !.ops[k] = on_oop_executed(@)]

\* Mutant: an executed operation never reaches a terminal state.
DoCompleted_never(s, k) == s

\* The operation reaches its terminal state, and the backend calls
\* oop_stable or oop_failed.
DoCompleted(s, k) ==
    IF s.ops[k].rc = 0
    THEN [s EXCEPT !.ops[k] = on_oop_finished([@ EXCEPT !.state = "STABLE"])]
    ELSE [s EXCEPT !.ops[k] = on_oop_failed([@ EXCEPT !.state = "FAILED"])]

\* Mutant: wait reports success without asking m0_rc.
cortx_ds_io_op_wait_norc(ops, k) ==
    [ops EXCEPT ![k].waited = TRUE, ![k].wret = 0]

\* cortx_ds_io_op_wait returned: m0_op_wait(FAILED | STABLE), then m0_rc,
\* which is what it returns.
cortx_ds_io_op_wait(ops, k) ==
    [ops EXCEPT ![k].waited = TRUE, ![k].wret = ops[k].rc]

\* dstore_io_op_wait in pread_aligned/pwrite_aligned.
DoWait(s) ==
    LET ops1 == cortx_ds_io_op_wait(s.ops, s.t.cur)
        op == ops1[s.t.cur]
    IN [s EXCEPT !.ops = ops1,
                 !.t.wrc = op.wret,
                 !.t.trace = Append(@, [type |-> op.type, off |-> op.off,
                                        size |-> op.size, rc |-> op.wret]),
                 !.t.pc = "io_fini"]

\* pread_aligned/pwrite_aligned from their wait to their return.
DoFini(s) == aligned_out(s, s.t.wrc)

\* pread_aligned or pwrite_aligned from its entry to its return: the
\* operation is made and submitted, the backend executes and completes it,
\* the wait returns, and label out releases everything and returns the rc
\* of the wait, or of the set-up that failed.
aligned_io(s) ==
    LET u == aligned_setup(s)
        k == u.s.t.cur
        w == DoWait(DoCompleted(DoExecuted(DoSubmit(u.s), k), k))
    IN aligned_out(IF u.rc # 0 THEN u.s ELSE w,
                   IF u.rc # 0 THEN u.rc ELSE w.t.wrc)

RECURSIVE Run(_)
\* The facade call run until it returns, one aligned IO after the other.
Run(s) ==
    IF s.t.pc # "io_init" THEN s
    ELSE CHOOSE r \in { Run(s1) : s1 \in {aligned_io(s)} } : TRUE

\* dstore_pwrite(obj, offset, count, BS, w) from the caller, w the n-th payload.
StartPwrite(o, offset, count, n, f) ==
    dstore_pwrite([IdleT EXCEPT !.call = "pwrite", !.offset = offset,
                                !.count = count, !.n = n, !.fplan = f, !.plan = f,
                                !.wbuf = Payload(n, count), !.pre = o],
                  offset, count, BS, "top")

\* dstore_pread(obj, offset, count, BS, r) from the caller.
StartPread(o, offset, count, f) ==
    dstore_pread([IdleT EXCEPT !.call = "pread", !.offset = offset,
                               !.count = count, !.fplan = f, !.plan = f,
                               !.rbuf = Fill(count, Poison), !.pre = o],
                 offset, count, BS)

\* dstore_obj_resize(obj, old_size, new_size) from the caller.
StartResize(o, old, new, n, f) ==
    dstore_obj_resize([IdleT EXCEPT !.call = "resize", !.old = old,
                                    !.new = new, !.n = n, !.fplan = f, !.plan = f,
                                    !.pre = o])

\* -------------------------------------------------------- object handle
\* Mutant: the record is not freed when m0store_obj_open fails.
cortx_ds_obj_open_leak(nalloc, outcome) ==
    CASE outcome = "alloc_fail" ->
            [rc |-> -ENOMEM, result |-> "NULL", nalloc |-> nalloc]
      [] outcome = "open_fail" ->
            [rc |-> -ENOENT, result |-> "NULL", nalloc |-> nalloc + 1]
      [] OTHER ->
            [rc |-> 0, result |-> "obj", nalloc |-> nalloc + 1]

\* cortx_ds_obj_open under the three outcomes of its two callees:
\* cortx_dstore_obj_alloc fails, m0store_obj_open fails, or both succeed.
\* result is what it stores in *out, nalloc the backend records allocated.
cortx_ds_obj_open(nalloc, outcome) ==
    CASE outcome = "alloc_fail" ->
            [rc |-> -ENOMEM, result |-> "NULL", nalloc |-> nalloc]
      [] outcome = "open_fail" ->
            [rc |-> -ENOENT, result |-> "NULL", nalloc |-> nalloc]
      [] OTHER ->
            [rc |-> 0, result |-> "obj", nalloc |-> nalloc + 1]

\* The process's one DataStore, and the DataStores a caller may hold.
g_dstore == 1

Dstores == 1 .. MaxDstores

\* Mutant: every handle refers to the process's DataStore.
dstore_obj_open_result_global(h, dstore, oid) ==
    [h EXCEPT !.ds = g_dstore, !.oid = oid]

\* dstore_obj_open, result->ds = dstore; result->oid = *oid.
dstore_obj_open_result(h, dstore, oid) ==
    [h EXCEPT !.ds = dstore, !.oid = oid]

\* dstore_obj_open: *out is written only after the backend open succeeded.
\* want_ds and want_oid keep the arguments of the call; nio restarts with
\* the new handle.
dstore_obj_open(h, dstore, oid, outcome) ==
    LET r == cortx_ds_obj_open(h.nalloc, outcome)
        h1 == [h EXCEPT !.want_ds = dstore, !.want_oid = oid]
    IN IF r.rc # 0
       THEN [h1 EXCEPT !.rc = r.rc, !.last = "open", !.nalloc = r.nalloc,
                       !.pre_out = h.out, !.pre_nalloc = h.nalloc]
       ELSE [dstore_obj_open_result(h1, dstore, oid)
                EXCEPT !.rc = 0, !.last = "open", !.nalloc = r.nalloc,
                       !.st = "open", !.out = r.result, !.via = 0, !.nio = 0,
                       !.pre_out = "NULL", !.pre_nalloc = 0]

\* obj->ds, the DataStore whose dstore_ops table a call on the handle uses:
\* dstore_obj_close, dstore_io_op_init_and_submit, and through op->obj
\* dstore_io_op_wait and dstore_io_op_fini.
obj_ds(h) == h.ds

\* dstore_io_op_init_and_submit, dstore_io_op_wait, dstore_io_op_fini: the
\* table the call is dispatched through.  which names the call.
dstore_io_op_dispatch(h, which) ==
    [h EXCEPT !.via = obj_ds(h), !.last = which,
              !.nio = IF which = "io_op_init" THEN @ + 1 ELSE @]

\* Mutant: close reports an operation that failed.
cortx_ds_obj_close_failed(ops) ==
    IF \E k \in Slots : ops[k].state = "FAILED" THEN -EIO ELSE 0

\* cortx_ds_obj_close: m0store_obj_close, cortx_dstore_obj_free, return 0.
\* It looks at no operation.
cortx_ds_obj_close(ops) == 0

\* dstore_obj_close
dstore_obj_close(h, ops) ==
    [h EXCEPT !.rc = cortx_ds_obj_close(ops), !.last = "close",
              !.via = obj_ds(h), !.st = "closed", !.nalloc = @ - 1]

\* --------------------------------------------------------- the dstore
\* A string is the sequence of its characters; the byte after them is NUL.
CharAt(str, i) == IF i <= Len(str) THEN str[i] ELSE "NUL"

strlen(str) == Len(str)

\* strncmp(a, b, n) == 0: the strings agree on their first n characters, or
\* up to the NUL that ends both.
strncmp_eq(a, b, n) ==
    \A i \in 1 .. n :
        (\A j \in 1 .. i - 1 : CharAt(a, j) # "NUL") =>
            CharAt(a, i) = CharAt(b, i)

Cortx == <<"c", "o", "r", "t", "x">>

\* dstore_modules, without its { NULL, NULL } end mark.
dstore_modules == <<[type |-> Cortx, ops |-> "cortx_dstore_ops"]>>

\* The test of the loop of dstore_init on module i.
TypeMatches(dstore_type, i) ==
    strncmp_eq(dstore_type, dstore_modules[i].type, strlen(dstore_type))

\* The loop of dstore_init: the ops of the first module that matches, or NULL.
LookupOps(dstore_type) ==
    LET hits == { i \in 1 .. Len(dstore_modules) : TypeMatches(dstore_type, i) }
    IN IF hits = {} THEN "NULL"
       ELSE dstore_modules[CHOOSE i \in hits : \A j \in hits : i <= j].ops

\* g_dstore before dstore_init, and no object in the store.
NoDs ==
    [type |-> <<>>, dstore_ops |-> "NULL", ninit |-> 0, alive |-> TRUE,
     ok |-> FALSE, exists |-> {},
     last |-> [call |-> "none", present |-> FALSE, value |-> <<>>, oid |-> 0,
               rc |-> 0, back |-> 0, outcome |-> "none", ninit |-> 0]]

\* g_dstore after dstore_init with dstore.type = cortx.
ReadyDs ==
    [NoDs EXCEPT !.type = Cortx, !.dstore_ops = "cortx_dstore_ops",
                 !.ninit = 1, !.ok = TRUE]

\* dstore_init(cfg, flags).  item.present says the configuration has a
\* dstore.type, item.value is its value; ndebug says the build drops assert;
\* init_rc is what the backend's init returns.  Without assert the call
\* through the NULL dstore_ops is undefined: the process crashes.
dstore_init(d, item, ndebug, init_rc) ==
    LET call == [d.last EXCEPT !.call = "init", !.present = item.present,
                               !.value = item.value, !.rc = 0,
                               !.back = init_rc, !.outcome = "return",
                               !.ninit = d.ninit]
        found == LookupOps(item.value)
        d1 == [d EXCEPT !.type = item.value, !.dstore_ops = found]
    IN IF ~item.present
       THEN [d EXCEPT !.last = [call EXCEPT !.rc = -EINVAL]]
       ELSE IF found = "NULL"
       THEN [d1 EXCEPT !.alive = FALSE,
                       !.last = [call EXCEPT !.outcome =
                                    IF ndebug THEN "crash" ELSE "abort"]]
       ELSE [d1 EXCEPT !.ninit = @ + 1, !.ok = (init_rc = 0),
                       !.last = [call EXCEPT !.rc = init_rc]]

\* m0store_delete_object: the object goes if it is there and the backend
\* does not fail with err.
m0store_delete_object(d, oid, err) ==
    IF err # 0 THEN [rc |-> err, exists |-> d.exists]
    ELSE IF oid \in d.exists THEN [rc |-> 0, exists |-> d.exists \ {oid}]
    ELSE [rc |-> -ENOENT, exists |-> d.exists]

\* Mutant: a non-existing object is only warned about.
cortx_ds_obj_del_rc_swallow(rc) == IF rc = -ENOENT THEN 0 ELSE rc

\* cortx_ds_obj_del after m0store_delete_object returned rc: a warning for
\* -ENOENT, an error log for the rest, and rc is returned.
cortx_ds_obj_del_rc(rc) == rc

\* dstore_obj_delete -> cortx_ds_obj_del
dstore_obj_delete(d, oid, err) ==
    LET r == m0store_delete_object(d, oid, err)
    IN [d EXCEPT !.exists = r.exists,
                 !.last = [d.last EXCEPT !.call = "delete", !.oid = oid,
                                         !.rc = cortx_ds_obj_del_rc(r.rc),
                                         !.back = r.rc]]

\* dstore_obj_create -> cortx_ds_obj_create -> m0store_create_object
dstore_obj_create(d, oid, err) ==
    LET rc == IF err # 0 THEN err
              ELSE IF oid \in d.exists THEN -EEXIST ELSE 0
    IN [d EXCEPT !.exists = IF rc = 0 THEN @ \cup {oid} ELSE @,
                 !.last = [d.last EXCEPT !.call = "create", !.oid = oid,
                                         !.rc = rc, !.back = rc]]

\* ---------------------------------------------------------------- state
VARIABLES
    obj,    \* the stored object
    ops,    \* the operation records
    t,      \* the caller of the facade
    hnd,    \* the object handle and the caller's pointer to it
    wleft,  \* mutating calls the caller may still make
    prev,   \* the last mutating call that returned
    ds,     \* g_dstore, the objects of the store, and the last call on it
    two     \* two more callers, each with an object of its own

vars == <<obj, ops, t, hnd, wleft, prev, ds, two>>

NoCall == [call |-> "none", offset |-> 0, count |-> 0, n |-> 0,
           old |-> 0, new |-> 0, rc |-> 0]

Callers == {1, 2}

\* A caller with its object: t and obj as for the one caller, alone the
\* object as the caller's calls leave it when nobody else runs, exp what the
\* running call returns and leaves when it runs alone, left the calls the
\* caller may still make.  For callers that share an object: saw is the
\* object as it was when the caller last read it (or entered its call),
\* stale tells that the object had changed since when the caller's write
\* was executed, wseq is the place of that write among the writes.
NoCaller ==
    [t |-> IdleT, obj |-> FreshObj, alone |-> FreshObj,
     exp |-> [rc |-> 0, rbuf |-> <<>>, obj |-> FreshObj], left |-> 0,
     saw |-> FreshObj, stale |-> FALSE, wseq |-> 0]

NoTwo == [c \in Callers |-> NoCaller]

\* No handle yet: the caller's pointer is NULL.
NoHandle ==
    [st |-> "closed", out |-> "NULL", nalloc |-> 0, rc |-> 0,
     last |-> "none", pre_out |-> "NULL", pre_nalloc |-> 0,
     ds |-> 0, oid |-> 0, want_ds |-> 0, want_oid |-> 0, via |-> 0, nio |-> 0]

InitCommon ==
    /\ obj = FreshObj
    /\ ops = [k \in Slots |-> FreeOp]
    /\ t = IdleT
    /\ hnd = NoHandle
    /\ prev = NoCall
    /\ two = NoTwo

Init == InitCommon /\ wleft = MaxWrites /\ ds = ReadyDs

\* The payload number of the next mutating call.
NextN == MaxWrites - wleft + 1

Ranges == { r \in (0 .. ObjBytes - 1) \X (1 .. ObjBytes) : r[1] + r[2] <= ObjBytes }

Sizes == 0 .. ObjBytes

\* ------------------------------------------------- actions, whole calls
Open(outcome) ==
    /\ hnd.st # "open"
    /\ t.pc = "idle"
    /\ hnd' = dstore_obj_open(hnd, g_dstore, 1, outcome)
    /\ UNCHANGED <<two, ds, obj, ops, t, wleft, prev>>

Close ==
    /\ hnd.st = "open"
    /\ t.pc = "idle"
    /\ hnd' = dstore_obj_close(hnd, ops)
    /\ UNCHANGED <<two, ds, obj, ops, t, wleft, prev>>

Ran(t0) ==
    LET s1 == Run([t |-> t0, obj |-> obj, ops |-> ops])
    IN /\ t' = s1.t
       /\ obj' = s1.obj
       /\ ops' = s1.ops

CanCall == hnd.st = "open" /\ t.pc = "idle" /\ FreeSlots(ops) = Slots

Pwrite(offset, count) ==
    /\ CanCall
    /\ wleft > 0
    /\ Ran(StartPwrite(obj, offset, count, NextN, 0))
    /\ wleft' = wleft - 1
    /\ UNCHANGED <<two, ds, hnd, prev>>

Pread(offset, count) ==
    /\ CanCall
    /\ Ran(StartPread(obj, offset, count, 0))
    /\ UNCHANGED <<two, ds, hnd, wleft, prev>>

Resize(old, new) ==
    /\ CanCall
    /\ old > new => wleft > 0
    /\ Ran(StartResize(obj, old, new, NextN, 0))
    /\ wleft' = IF old > new THEN wleft - 1 ELSE wleft
    /\ UNCHANGED <<two, ds, hnd, prev>>

Mutating(c) == c.call = "pwrite" \/ (c.call = "resize" /\ c.old > c.new)

\* The caller takes the result of the call and drops its buffers.
Return ==
    /\ t.pc = "done"
    /\ t' = IdleT
    /\ prev' = IF Mutating(t)
               THEN [call |-> t.call, offset |-> t.offset, count |-> t.count,
                     n |-> t.n, old |-> t.old, new |-> t.new, rc |-> t.rc]
               ELSE prev
    /\ UNCHANGED <<two, ds, obj, ops, hnd, wleft>>

Next ==
    \/ \E outcome \in {"ok", "alloc_fail", "open_fail"} : Open(outcome)
    \/ Close
    \/ \E r \in Ranges : Pwrite(r[1], r[2])
    \/ \E r \in Ranges : Pread(r[1], r[2])
    \/ \E old \in Sizes, new \in Sizes : Resize(old, new)
    \/ Return

Spec == Init /\ [][Next]_vars

\* --------------------------------------------- actions, one step at a time
\* The same program with every step of a call its own action, the backend
\* finishing operations when it pleases, and a caller that also uses
\* dstore_io_op_write/read, dstore_io_op_wait and dstore_io_op_fini itself.
InitSteps == InitCommon /\ wleft = MaxStepWrites /\ ds = ReadyDs

StepBytes == IF MaxStepBytes < ObjBytes THEN MaxStepBytes ELSE ObjBytes

\* The ranges and sizes the caller of the step-wise program picks from.
StepRanges == { r \in Ranges : r[1] + r[2] <= StepBytes }

StepSizes == 0 .. StepBytes

StepBlocks == { b \in Blocks : b * BS < StepBytes }

CanStart == hnd.st = "open" /\ t.pc = "idle" /\ FreeSlots(ops) # {}

CallPwrite(offset, count) ==
    /\ CanStart
    /\ wleft > 0
    /\ t' = StartPwrite(obj, offset, count, NextN, 0)
    /\ wleft' = wleft - 1
    /\ UNCHANGED <<two, ds, obj, ops, hnd, prev>>

CallPread(offset, count) ==
    /\ CanStart
    /\ t' = StartPread(obj, offset, count, 0)
    /\ UNCHANGED <<two, ds, obj, ops, hnd, wleft, prev>>

CallResize(old, new) ==
    /\ CanStart
    /\ old > new => wleft > 0
    /\ t' = StartResize(obj, old, new, NextN, 0)
    /\ wleft' = IF old > new THEN wleft - 1 ELSE wleft
    /\ UNCHANGED <<two, ds, obj, ops, hnd, prev>>

Stepped(s1) ==
    /\ t' = s1.t
    /\ obj' = s1.obj
    /\ ops' = s1.ops
    /\ UNCHANGED <<two, ds, hnd, wleft, prev>>

Here == [t |-> t, obj |-> obj, ops |-> ops]

OpInit == t.pc = "io_init" /\ Stepped(DoInit(Here))

OpSubmit == t.pc = "io_submit" /\ Stepped(DoSubmit(Here))

OpWait ==
    /\ t.pc = "io_wait"
    /\ ops[t.cur].state \in Terminal
    /\ Stepped(DoWait(Here))

OpFini == t.pc = "io_fini" /\ Stepped(DoFini(Here))

Executed(k) == ops[k].state = "SUBMITTED" /\ Stepped(DoExecuted(Here, k))

Completed(k) == ops[k].state = "EXECUTED" /\ Stepped(DoCompleted(Here, k))

\* The values of enum dstore_io_op_type a caller may pass, and one that is
\* none of them.
OpTypes == {"READ", "WRITE", "FREE", "OTHER"}

\* What the environment may refuse to an init: nothing, the allocation of
\* the operation record (M0_ALLOC_PTR), or the backend operation (m0_obj_op).
InitFailures == {"none", "alloc", "obj_op"}

\* dstore_io_op_write/dstore_io_op_read by the caller on one block: the
\* init half of dstore_io_op_init_and_submit.
\* With cb the caller goes to io_op_init of the operations table itself and
\* registers a callback.  An init that fails returns to the caller at once.
\* fail is what the environment refuses to this init.
UserInit(type, blk, cb, fail) ==
    LET r == cortx_ds_io_op_init(ops, 0, "full", type, cb,
                                 IoDesc("user", "none", 0, BS, blk * BS, NextN),
                                 fail)
    IN /\ CanStart
       /\ type \in {"WRITE", "FREE"} => wleft > 0
       /\ ops' = r.ops
       /\ t' = [IdleT EXCEPT !.pc = IF r.rc = 0 THEN "user_submit" ELSE "done",
                              !.call = "io_op_init", !.req.type = type,
                              !.plan = IF fail = "none" THEN 0 ELSE 1,
                              !.rc = r.rc, !.cur = r.out, !.io.vec = r.vec,
                              !.nops = Cardinality(FreeSlots(ops))
                                       - Cardinality(FreeSlots(r.ops))]
       /\ wleft' = IF type \in {"WRITE", "FREE"} /\ r.rc = 0
                   THEN wleft - 1 ELSE wleft
       /\ UNCHANGED <<two, ds, obj, hnd, prev>>

\* The submit half; the operation is handed to the caller.
UserSubmit ==
    /\ t.pc = "user_submit"
    /\ ops' = cortx_ds_io_op_submit(ops, t.cur)
    /\ t' = IdleT
    /\ UNCHANGED <<two, ds, obj, hnd, wleft, prev>>

\* dstore_io_op_wait by the caller returns.
UserWait(k) ==
    /\ t.pc = "idle"
    /\ ops[k].owner = "user" /\ ops[k].state \in Terminal /\ ~ops[k].waited
    /\ ops' = cortx_ds_io_op_wait(ops, k)
    /\ UNCHANGED <<two, ds, obj, t, hnd, wleft, prev>>

\* dstore_io_op_fini by the caller, after its wait.
UserFini(k) ==
    /\ t.pc = "idle"
    /\ ops[k].owner = "user" /\ ops[k].waited
    /\ ops' = cortx_ds_io_op_fini(ops, k)
    /\ UNCHANGED <<two, ds, obj, t, hnd, wleft, prev>>

NextSteps ==
    \/ \E outcome \in {"ok", "alloc_fail", "open_fail"} : Open(outcome)
    \/ Close
    \/ \E r \in StepRanges : CallPwrite(r[1], r[2])
    \/ \E r \in StepRanges : CallPread(r[1], r[2])
    \/ \E old \in StepSizes, new \in StepSizes : CallResize(old, new)
    \/ OpInit
    \/ OpSubmit
    \/ OpWait
    \/ OpFini
    \/ \E k \in Slots : Executed(k)
    \/ \E k \in Slots : Completed(k)
    \/ \E type \in OpTypes, blk \in StepBlocks, cb \in BOOLEAN,
          fail \in InitFailures :
            UserInit(type, blk, cb, fail)
    \/ UserSubmit
    \/ \E k \in Slots : UserWait(k)
    \/ \E k \in Slots : UserFini(k)
    \/ Return

SpecSteps == InitSteps /\ [][NextSteps]_vars

\* ------------------------------------------------- actions on the dstore
\* The program from process start: dstore_init with any configuration, then
\* objects created and deleted.
InitStore == InitCommon /\ wleft = 0 /\ ds = NoDs

Alphabet == {"c", "o", "r", "t", "x"}

\* The strings of at most n characters.
Strings(n) == UNION { [1 .. k -> Alphabet] : k \in 0 .. n }

ConfigItems ==
    {[present |-> FALSE, value |-> <<>>]}
        \cup { [present |-> TRUE, value |-> w] : w \in Strings(MaxTypeLen) }

Oids == 1 .. MaxOids

StoreRest == UNCHANGED <<two, obj, ops, t, hnd, wleft, prev>>

\* dstore_init is called once, when the process starts.
DsInit(item, ndebug, init_rc) ==
    /\ ds.last.call = "none"
    /\ ds' = dstore_init(ds, item, ndebug, init_rc)
    /\ StoreRest

DsReady == ds.alive /\ ds.ok

ObjCreate(oid, err) ==
    /\ DsReady
    /\ ds' = dstore_obj_create(ds, oid, err)
    /\ StoreRest

ObjDelete(oid, err) ==
    /\ DsReady
    /\ ds' = dstore_obj_delete(ds, oid, err)
    /\ StoreRest

DsInitAny ==
    /\ ds.last.call = "none"
    /\ \E item \in ConfigItems, ndebug \in BOOLEAN, init_rc \in {0, -EIO} :
          DsInit(item, ndebug, init_rc)

ObjCreateAny ==
    /\ DsReady
    /\ \E oid \in Oids, err \in {0, -EIO} : ObjCreate(oid, err)

ObjDeleteAny ==
    /\ DsReady
    /\ \E oid \in Oids, err \in {0, -EIO} : ObjDelete(oid, err)

NextStore == DsInitAny \/ ObjCreateAny \/ ObjDeleteAny

SpecStore == InitStore /\ [][NextStore]_vars

\* ------------------------------------------- actions, calls with faults
\* The whole calls again, on an open object, with an environment that fails
\* one allocation, one operation set-up or one backend operation of a call.
InitFaults ==
    /\ InitCommon
    /\ wleft = MaxFaultWrites
    /\ ds = ReadyDs

FaultRanges == { r \in Ranges : r[1] + r[2] <= MaxFaultBytes }

\* Reads reach one byte further, into a block no write has reached.
FaultReadRanges == { r \in Ranges : r[1] + r[2] <= MaxFaultReadBytes }

FaultSizes == 0 .. MaxFaultBytes

FaultPlans == 0 .. MaxFaultAt

FaultN == MaxFaultWrites - wleft + 1

FOpen ==
    /\ hnd.st # "open"
    /\ t.pc = "idle"
    /\ hnd' = dstore_obj_open(hnd, g_dstore, 1, "ok")
    /\ UNCHANGED <<two, ds, obj, ops, t, wleft, prev>>

FPwrite(offset, count, f) ==
    /\ Ran(StartPwrite(obj, offset, count, FaultN, f))
    /\ wleft' = wleft - 1
    /\ UNCHANGED <<two, ds, hnd, prev>>

FPread(offset, count, f) ==
    /\ Ran(StartPread(obj, offset, count, f))
    /\ UNCHANGED <<two, ds, hnd, wleft, prev>>

FResize(old, new, f) ==
    /\ Ran(StartResize(obj, old, new, FaultN, f))
    /\ wleft' = wleft - 1
    /\ UNCHANGED <<two, ds, hnd, prev>>

FPwriteAny ==
    /\ CanCall /\ wleft > 0
    /\ \E r \in FaultRanges, f \in FaultPlans : FPwrite(r[1], r[2], f)

FPreadAny ==
    /\ CanCall
    /\ \E r \in FaultReadRanges, f \in FaultPlans : FPread(r[1], r[2], f)

FResizeAny ==
    /\ CanCall /\ wleft > 0
    /\ \E old \in FaultSizes, new \in FaultSizes, f \in FaultPlans :
          old > new /\ FResize(old, new, f)

\* The caller takes the result of the call and drops its buffers.
FReturn ==
    /\ t.pc = "done"
    /\ t' = IdleT
    /\ UNCHANGED <<two, ds, obj, ops, hnd, wleft, prev>>

NextFaults == FOpen \/ FPwriteAny \/ FPreadAny \/ FResizeAny \/ FReturn

SpecFaults == InitFaults /\ [][NextFaults]_vars

\* ------------------------------------------------ actions, two callers
\* Two callers, each with a handle on an object of its own, run their calls
\* step by step in any interleaving.  They share the process: the heap the
\* operation records come from (ops) and g_dstore.
NoOps == [k \in Slots |-> FreeOp]

\* The objects a caller may start with: never written, or as an earlier
\* pwrite of block 0 by the same caller left it.
TwoObjects(c) ==
    { FreshObj,
      Run([t |-> StartPwrite(FreshObj, 0, BS, c, 0), obj |-> FreshObj,
           ops |-> NoOps]).obj }

InitTwo ==
    /\ obj = FreshObj
    /\ ops = [k \in Slots |-> FreeOp]
    /\ t = IdleT
    /\ hnd = NoHandle
    /\ prev = NoCall
    /\ wleft = 0
    /\ ds = ReadyDs
    /\ \E o1 \in TwoObjects(1), o2 \in TwoObjects(2) :
          two = [c \in Callers |->
                   [NoCaller EXCEPT !.left = MaxTwoCalls,
                                    !.obj = IF c = 1 THEN o1 ELSE o2,
                                    !.alone = IF c = 1 THEN o1 ELSE o2]]

TwoRanges == { r \in Ranges : r[1] + r[2] <= MaxTwoBytes }

TwoSizes == 0 .. MaxTwoBytes

TwoRest == UNCHANGED <<obj, t, hnd, wleft, prev, ds>>

\* The call of kind with arguments a, b that caller c starts on object o.
TwoCall(o, c, kind, a, b) ==
    CASE kind = "pwrite" -> StartPwrite(o, a, b, c, 0)
      [] kind = "pread" -> StartPread(o, a, b, 0)
      [] OTHER -> StartResize(o, a, b, c, 0)

TwoStart(c, kind, a, b) ==
    /\ two[c].t.pc = "idle"
    /\ two[c].left > 0
    /\ \E solo \in { Run([t |-> TwoCall(two[c].alone, c, kind, a, b),
                          obj |-> two[c].alone,
                          ops |-> NoOps]) } :
          two' = [two EXCEPT ![c].t = TwoCall(two[c].obj, c, kind, a, b),
                             ![c].left = @ - 1,
                             ![c].alone = solo.obj,
                             ![c].exp = [rc |-> solo.t.rc,
                                         rbuf |-> solo.t.rbuf,
                                         obj |-> solo.obj]]
    /\ UNCHANGED ops
    /\ TwoRest

\* Mutant: every caller's handle names caller 1's object.
TwoHere_shared(c) == [t |-> two[c].t, obj |-> two[1].obj, ops |-> ops]

\* What a step of caller c works on: its call, the object its handle names,
\* and the operation records of the process.
TwoHere(c) == [t |-> two[c].t, obj |-> two[c].obj, ops |-> ops]

TwoStepped(c, s1) ==
    /\ two' = [two EXCEPT ![c].t = s1.t, ![c].obj = s1.obj]
    /\ ops' = s1.ops
    /\ TwoRest

TwoInit(c) ==
    /\ two[c].t.pc = "io_init"
    /\ \E s1 \in {DoInit(TwoHere(c))} : TwoStepped(c, s1)

TwoSubmit(c) ==
    /\ two[c].t.pc = "io_submit"
    /\ \E s1 \in {DoSubmit(TwoHere(c))} : TwoStepped(c, s1)

\* The backend executes, then completes, the operation caller c waits for.
TwoExecuted(c) ==
    /\ two[c].t.pc = "io_wait"
    /\ ops[two[c].t.cur].state = "SUBMITTED"
    /\ \E s1 \in {DoExecuted(TwoHere(c), two[c].t.cur)} : TwoStepped(c, s1)

TwoCompleted(c) ==
    /\ two[c].t.pc = "io_wait"
    /\ ops[two[c].t.cur].state = "EXECUTED"
    /\ \E s1 \in {DoCompleted(TwoHere(c), two[c].t.cur)} : TwoStepped(c, s1)

TwoWait(c) ==
    /\ two[c].t.pc = "io_wait"
    /\ ops[two[c].t.cur].state \in Terminal
    /\ \E s1 \in {DoWait(TwoHere(c))} : TwoStepped(c, s1)

TwoFini(c) ==
    /\ two[c].t.pc = "io_fini"
    /\ \E s1 \in {DoFini(TwoHere(c))} : TwoStepped(c, s1)

TwoReturn(c) ==
    /\ two[c].t.pc = "done"
    /\ two' = [two EXCEPT ![c].t = IdleT]
    /\ UNCHANGED ops
    /\ TwoRest

NextTwo ==
    \/ \E c \in Callers, r \in TwoRanges : TwoStart(c, "pwrite", r[1], r[2])
    \/ \E c \in Callers, r \in TwoRanges : TwoStart(c, "pread", r[1], r[2])
    \/ \E c \in Callers, old \in TwoSizes, new \in TwoSizes :
          TwoStart(c, "resize", old, new)
    \/ \E c \in Callers : TwoInit(c)
    \/ \E c \in Callers : TwoSubmit(c)
    \/ \E c \in Callers : TwoExecuted(c)
    \/ \E c \in Callers : TwoCompleted(c)
    \/ \E c \in Callers : TwoWait(c)
    \/ \E c \in Callers : TwoFini(c)
    \/ \E c \in Callers : TwoReturn(c)

SpecTwo == InitTwo /\ [][NextTwo]_vars

\* ------------------------------------------- actions, calls that return
\* The facade calls step by step, failed at any one opportunity or not at
\* all, under a scheduler that lets the calling thread run and a backend
\* that executes and completes every operation submitted to it.
LivePlans == 0 .. MaxLiveAt

\* The ranges and sizes of these calls: inside the first block.
LiveRanges == { r \in Ranges : r[1] + r[2] <= BS }

LiveSizes == 0 .. BS

LivePwrite(offset, count, f) ==
    /\ CanStart
    /\ wleft > 0
    /\ t' = StartPwrite(obj, offset, count, NextN, f)
    /\ wleft' = wleft - 1
    /\ UNCHANGED <<two, ds, obj, ops, hnd, prev>>

LivePread(offset, count, f) ==
    /\ CanStart
    /\ t' = StartPread(obj, offset, count, f)
    /\ UNCHANGED <<two, ds, obj, ops, hnd, wleft, prev>>

LiveResize(old, new, f) ==
    /\ CanStart
    /\ old > new /\ wleft > 0
    /\ t' = StartResize(obj, old, new, NextN, f)
    /\ wleft' = wleft - 1
    /\ UNCHANGED <<two, ds, obj, ops, hnd, prev>>

NextLive ==
    \/ Open("ok")
    \/ \E r \in LiveRanges, f \in LivePlans : LivePwrite(r[1], r[2], f)
    \/ \E r \in LiveRanges, f \in LivePlans : LivePread(r[1], r[2], f)
    \/ \E old \in LiveSizes, new \in LiveSizes, f \in LivePlans :
          LiveResize(old, new, f)
    \/ OpInit
    \/ OpSubmit
    \/ OpWait
    \/ OpFini
    \/ \E k \in Slots : Executed(k)
    \/ \E k \in Slots : Completed(k)
    \/ Return

\* The calling thread is scheduled; the backend executes and completes what
\* was submitted to it.
ThreadStep == OpInit \/ OpSubmit \/ OpWait \/ OpFini

BackendStep == \E k \in Slots : Executed(k) \/ Completed(k)

LiveFairness == WF_vars(ThreadStep) /\ WF_vars(BackendStep)

SpecLive == InitSteps /\ [][NextLive]_vars /\ LiveFairness

\* ------------------------------------------- actions, handle and dstore
\* A caller that holds several DataStores opens objects in any of them and
\* starts, waits for and finishes operations on the handle it got.
InitHandle == InitCommon /\ wleft = 0 /\ ds = ReadyDs

HandleRest == UNCHANGED <<two, ds, obj, ops, t, wleft, prev>>

OpenIn(dstore, oid, outcome) ==
    /\ hnd.st # "open"
    /\ hnd' = dstore_obj_open(hnd, dstore, oid, outcome)
    /\ HandleRest

\* dstore_io_op_write/read, dstore_io_op_wait, dstore_io_op_fini on the
\* open handle.
HandleOp(which) ==
    /\ hnd.st = "open"
    /\ which = "io_op_init" => hnd.nio < MaxHandleOps
    /\ which # "io_op_init" => hnd.nio > 0
    /\ hnd' = dstore_io_op_dispatch(hnd, which)
    /\ HandleRest

HandleClose ==
    /\ hnd.st = "open"
    /\ hnd' = dstore_obj_close(hnd, ops)
    /\ HandleRest

NextHandle ==
    \/ \E dstore \in Dstores, oid \in Oids,
          outcome \in {"ok", "alloc_fail", "open_fail"} :
            OpenIn(dstore, oid, outcome)
    \/ \E which \in {"io_op_init", "io_op_wait", "io_op_fini"} :
          HandleOp(which)
    \/ HandleClose

SpecHandle == InitHandle /\ [][NextHandle]_vars

\* ------------------------------------------- the block-index arithmetic
\* The declarations of pwrite_unaligned, pread_unaligned and
\* pread_aligned_handle_holes on offsets and counts of the whole range of
\* off_t and size_t: small ones, and ones whose block number is past 32 bits.
ArithOffsets ==
    { k * W32 * BS + d : k \in 0 .. MaxArithWraps, d \in 0 .. 2 * BS }

ArithCounts ==
    (1 .. 2 * BS)
        \cup { k * (W32 \div 2) * BS : k \in 1 .. 2 * MaxArithWraps }

NoArith(offset, count) ==
    [call |-> "none", offset |-> offset, count |-> count, bs |-> BS,
     left |-> 0, right |-> 0, nblks |-> 0, pos |-> 0, loop |-> 0]

InitArith ==
    /\ obj = FreshObj
    /\ ops = [k \in Slots |-> FreeOp]
    /\ t = IdleT
    /\ hnd = NoHandle
    /\ two = NoTwo
    /\ wleft = 0
    /\ ds = ReadyDs
    /\ prev \in { NoArith(offset, count) :
                      offset \in ArithOffsets, count \in ArithCounts }

ArithRest == UNCHANGED <<two, ds, obj, ops, t, hnd, wleft>>

ArithPwrite ==
    /\ prev.call = "none"
    /\ prev' = [prev EXCEPT
                   !.call = "pwrite_unaligned",
                   !.left = left_blk_num(prev.offset, prev.bs),
                   !.right = right_blk_num(prev.offset, prev.count, prev.bs),
                   !.nblks = num_of_blks(prev.offset, prev.count, prev.bs),
                   !.pos = pwrite_unaligned_buf_pos(prev.offset, prev.bs)]
    /\ ArithRest

ArithPread ==
    /\ prev.call = "none"
    /\ prev' = [prev EXCEPT
                   !.call = "pread_unaligned",
                   !.left = left_blk_num(prev.offset, prev.bs),
                   !.pos = pread_unaligned_left_bytes(prev.offset, prev.bs),
                   !.nblks = pread_unaligned_cont_blk_count(prev.count,
                                                            prev.bs)]
    /\ ArithRest

ArithHoles ==
    /\ prev.call = "none"
    /\ prev' = [prev EXCEPT
                   !.call = "pread_aligned_handle_holes",
                   !.loop = pread_aligned_handle_holes_count(prev.count,
                                                             prev.bs)]
    /\ ArithRest

NextArith == ArithPwrite \/ ArithPread \/ ArithHoles

SpecArith == InitArith /\ [][NextArith]_vars

\* ------------------------------------- actions, two callers, one object
\* Two callers write to the same object at the same time: both enter
\* dstore_pwrite, then the steps of their operations interleave in any
\* order.  obj is the object, wleft the rounds left; alone of caller 1 is
\* the object as the two calls leave it when caller 1's runs first and
\* caller 2's after it, alone of caller 2 the same for the other order.
InitShared ==
    /\ InitCommon
    /\ wleft = MaxSharedRounds
    /\ ds = ReadyDs

SharedRest == UNCHANGED <<t, hnd, prev, ds>>

\* The ranges the two callers write: inside the first block, which they
\* share.
SharedRanges == { r \in Ranges : r[1] + r[2] <= BS }

\* The object after the calls pwrite(r) of caller c and then pwrite(q) of
\* caller d, one after the other.
Serial(o, c, r, d, q) ==
    Run([t |-> StartPwrite(
                   Run([t |-> StartPwrite(o, r[1], r[2], c, 0), obj |-> o,
                        ops |-> NoOps]).obj,
                   q[1], q[2], d, 0),
         obj |-> Run([t |-> StartPwrite(o, r[1], r[2], c, 0), obj |-> o,
                      ops |-> NoOps]).obj,
         ops |-> NoOps]).obj

SharedBegin(r1, r2) ==
    /\ two[1].t.pc = "idle" /\ two[2].t.pc = "idle"
    /\ wleft > 0
    /\ two' = [c \in Callers |->
                 [NoCaller EXCEPT
                    !.t = StartPwrite(obj, IF c = 1 THEN r1[1] ELSE r2[1],
                                      IF c = 1 THEN r1[2] ELSE r2[2], c, 0),
                    !.saw = obj,
                    !.alone = IF c = 1 THEN Serial(obj, 1, r1, 2, r2)
                                       ELSE Serial(obj, 2, r2, 1, r1)]]
    /\ wleft' = wleft - 1
    /\ UNCHANGED <<obj, ops>>
    /\ SharedRest

SharedHere(c) == [t |-> two[c].t, obj |-> obj, ops |-> ops]

SharedStepped(c, s1) ==
    /\ two' = [two EXCEPT ![c].t = s1.t]
    /\ obj' = s1.obj
    /\ ops' = s1.ops
    /\ UNCHANGED wleft
    /\ SharedRest

SharedInit(c) ==
    /\ two[c].t.pc = "io_init"
    /\ \E s1 \in {DoInit(SharedHere(c))} : SharedStepped(c, s1)

SharedSubmit(c) ==
    /\ two[c].t.pc = "io_submit"
    /\ \E s1 \in {DoSubmit(SharedHere(c))} : SharedStepped(c, s1)

\* The backend executes the operation caller c waits for: a read shows the
\* caller the object as it is now, a write lands on the object as it is now.
SharedExecuted(c) ==
    /\ two[c].t.pc = "io_wait"
    /\ ops[two[c].t.cur].state = "SUBMITTED"
    /\ \E s1 \in {DoExecuted(SharedHere(c), two[c].t.cur)} :
          /\ two' = [two EXCEPT
                       ![c].t = s1.t,
                       ![c].saw = IF ops[two[c].t.cur].type = "READ"
                                  THEN obj ELSE @,
                       ![c].stale = IF ops[two[c].t.cur].type = "WRITE"
                                    THEN obj # two[c].saw ELSE @,
                       ![c].wseq = IF ops[two[c].t.cur].type = "WRITE"
                                   THEN 1 + Cardinality(
                                            { d \in Callers : two[d].wseq > 0 })
                                   ELSE @]
          /\ obj' = s1.obj
          /\ ops' = s1.ops
    /\ UNCHANGED wleft
    /\ SharedRest

SharedCompleted(c) ==
    /\ two[c].t.pc = "io_wait"
    /\ ops[two[c].t.cur].state = "EXECUTED"
    /\ \E s1 \in {DoCompleted(SharedHere(c), two[c].t.cur)} :
          SharedStepped(c, s1)

SharedWait(c) ==
    /\ two[c].t.pc = "io_wait"
    /\ ops[two[c].t.cur].state \in Terminal
    /\ \E s1 \in {DoWait(SharedHere(c))} : SharedStepped(c, s1)

SharedFini(c) ==
    /\ two[c].t.pc = "io_fini"
    /\ \E s1 \in {DoFini(SharedHere(c))} : SharedStepped(c, s1)

\* Both calls have returned; the callers drop their buffers.
SharedReturn ==
    /\ two[1].t.pc = "done" /\ two[2].t.pc = "done"
    /\ two' = NoTwo
    /\ UNCHANGED <<obj, ops, wleft>>
    /\ SharedRest

NextShared ==
    \/ \E r1 \in SharedRanges, r2 \in SharedRanges : SharedBegin(r1, r2)
    \/ \E c \in Callers : SharedInit(c)
    \/ \E c \in Callers : SharedSubmit(c)
    \/ \E c \in Callers : SharedExecuted(c)
    \/ \E c \in Callers : SharedCompleted(c)
    \/ \E c \in Callers : SharedWait(c)
    \/ \E c \in Callers : SharedFini(c)
    \/ SharedReturn

SpecShared == InitShared /\ [][NextShared]_vars

\* ---------------------------------------------------------------- claims
PreadDone == t.pc = "done" /\ t.call = "pread"

\* The caller's last mutating call was a successful pwrite of the range the
\* finished pread asked for.
ReadBack ==
    /\ PreadDone
    /\ prev.call = "pwrite" /\ prev.rc = 0
    /\ t.offset = prev.offset /\ t.count = prev.count

\* C1: a pread of the range that the last successful pwrite wrote, with no
\* other mutating call in between, returns 0 and delivers that pwrite's
\* payload, for aligned and unaligned ranges and whatever was written before.
C1_RoundTrip ==
    ReadBack => t.rc = 0 /\ t.rbuf = Payload(prev.n, prev.count)

C1_Witness ==
    /\ ReadBack
    /\ prev.n = MaxWrites
    /\ t.offset % BS # 0 /\ (t.offset + t.count) % BS # 0
    /\ t.count > BS
    /\ t.rbuf = Payload(prev.n, prev.count)

OutsideRange(p, offset, count) == p < offset \/ p >= offset + count

\* C2: after a successful pwrite every byte outside [offset, offset+count)
\* reads as it did before the call.
C2_FramePreserved ==
    (t.pc = "done" /\ t.call = "pwrite" /\ t.rc = 0) =>
        \A p \in 0 .. ObjBytes - 1 :
            OutsideRange(p, t.offset, t.count) =>
                LogicalByte(obj, p) = LogicalByte(t.pre, p)

\* C3: with a backend that answers -ENOENT to a read touching a hole, every
\* pread returns 0 and delivers the stored bytes of the written blocks and
\* zero for every byte of a never-written block.
C3_SparseRead ==
    PreadDone => t.rc = 0 /\ t.rbuf = LogicalRange(obj, t.offset, t.count)

C3_Witness ==
    /\ PreadDone /\ t.rc = 0
    /\ \E b1, b2 \in BlocksOf(t.offset - (t.offset % BS), t.count + BS) :
          /\ b1 < b2
          /\ obj[b1] = <<>> /\ obj[b2] # <<>>
          /\ \E b3 \in Blocks : b3 < b1 /\ obj[b3] # <<>>
    /\ t.offset = 0 /\ t.count = ObjBytes
    /\ \E i \in 1 .. t.count : t.rbuf[i] # 0

\* C4: on an object no mutating call was made on, every pread (aligned or
\* not, one block or many) returns 0 and fills the buffer with zero bytes.
C4_FreshReadsZero ==
    (PreadDone /\ wleft = MaxWrites) => t.rc = 0 /\ t.rbuf = Zeros(t.count)

C4_Witness ==
    /\ PreadDone /\ wleft = MaxWrites
    /\ t.offset % BS = 0 /\ t.count = BS
    /\ t.rbuf = Zeros(BS)

\* The caller's last mutating call was a successful shrink and the finished
\* pread asked for the truncated range.
ReadTruncated ==
    /\ PreadDone
    /\ prev.call = "resize" /\ prev.old > prev.new /\ prev.rc = 0
    /\ t.offset = prev.new /\ t.count = prev.old - prev.new

\* C5: after a successful shrink from old_size to new_size a pread of
\* [new_size, old_size) returns 0 and delivers only zero bytes.
C5_ShrinkZeroFills ==
    ReadTruncated => t.rc = 0 /\ t.rbuf = Zeros(t.count)

C5_Witness ==
    /\ ReadTruncated
    /\ prev.n = MaxWrites
    /\ prev.old % BS # 0 /\ prev.new % BS # 0
    /\ prev.old - prev.new > DSAL_MAX_IO_SIZE
    /\ t.rbuf = Zeros(t.count)

ResizeDone == t.pc = "done" /\ t.call = "resize"

\* C6: a resize with old_size <= new_size returns 0, makes no block-size
\* lookup, initialises no backend operation and leaves the object as it was.
C6_ExtendIsNoop ==
    (ResizeDone /\ t.old <= t.new) =>
        t.rc = 0 /\ t.nbs = 0 /\ t.nops = 0 /\ obj = t.pre

C6_Witness ==
    /\ ResizeDone /\ t.old = t.new /\ t.old > 0
    /\ obj # FreshObj /\ t.rc = 0

OpenFailed == hnd.last = "open" /\ hnd.rc # 0

\* C9: when the backend open fails (allocation or m0 open), dstore_obj_open
\* returns the backend's error, the caller's *out is what it was, and no
\* backend object record stays allocated.
C9_OpenFailure ==
    OpenFailed =>
        /\ hnd.rc \in {-ENOMEM, -ENOENT}
        /\ hnd.out = hnd.pre_out
        /\ hnd.nalloc = hnd.pre_nalloc
        /\ hnd.st # "open"

C9_Witness ==
    OpenFailed /\ hnd.rc = -ENOENT /\ hnd.out = "NULL" /\ hnd.nalloc = 0

InFlight == {"INIT", "SUBMITTED", "EXECUTED"}

Closed == hnd.last = "close" /\ hnd.st = "closed"

\* C7: when dstore_obj_close has returned, no operation launched through the
\* handle is still INIT, SUBMITTED or EXECUTED: every one is STABLE or FAILED
\* (or already finalised).
C7_CloseWaitsForOps ==
    Closed => \A k \in Slots : ops[k].state \notin InFlight

AllWaited == \A k \in Slots : ops[k].state # "FREE" => ops[k].waited

\* C8: a close made when wait has returned for every operation of the handle
\* returns 0, whether those operations ended STABLE or FAILED.
C8_CloseAfterWaits ==
    (Closed /\ AllWaited) => hnd.rc = 0

C8_Witness ==
    /\ Closed /\ AllWaited /\ hnd.rc = 0
    /\ \E k \in Slots : ops[k].state = "FAILED"
    /\ \E k \in Slots : ops[k].state = "STABLE"

LifecycleMoves ==
    {<<"FREE", "INIT">>, <<"INIT", "SUBMITTED">>, <<"SUBMITTED", "EXECUTED">>,
     <<"EXECUTED", "STABLE">>, <<"EXECUTED", "FAILED">>,
     <<"STABLE", "FREE">>, <<"FAILED", "FREE">>}

\* One step of the program as operation record k sees it.
LifecycleStep(k) ==
    /\ ops[k].state # ops'[k].state =>
          <<ops[k].state, ops'[k].state>> \in LifecycleMoves
    /\ (~ops[k].waited /\ ops'[k].waited) =>
          ops[k].state \in Terminal /\ ops'[k].state = ops[k].state
    /\ (ops[k].owner = "facade" /\ ops[k].state # "FREE"
            /\ ops'[k].state = "FREE") =>
          ops[k].state \in Terminal /\ ops[k].waited

\* C10: an operation's state moves only INIT -> SUBMITTED -> EXECUTED ->
\* STABLE or FAILED and leaves STABLE or FAILED only by being finalised; wait
\* returns only on a terminal operation, and pread_aligned/pwrite_aligned
\* finalise an operation only after their wait on it returned.
C10_Lifecycle == [][\A k \in Slots : LifecycleStep(k)]_vars

C10_Witness ==
    /\ t.pc = "io_fini"
    /\ ops[t.cur].owner = "facade"
    /\ ops[t.cur].state = "FAILED" /\ ops[t.cur].waited
    /\ \E k \in Slots : ops[k].owner = "user" /\ ops[k].state = "EXECUTED"

\* C11: dstore_io_op_wait has returned only for operations that are STABLE or
\* FAILED, and what it returned is the operation's final rc: 0 for a STABLE
\* operation, the negative rc of a FAILED one.
C11_WaitReturnsFinalRc ==
    /\ \A k \in Slots :
          ops[k].waited =>
              /\ ops[k].state \in Terminal
              /\ ops[k].wret = ops[k].rc
              /\ ops[k].state = "STABLE" => ops[k].wret = 0
              /\ ops[k].state = "FAILED" => ops[k].wret < 0
    /\ (t.pc = "io_fini" /\ t.cur # 0) =>
          ops[t.cur].waited /\ t.wrc = ops[t.cur].rc

C11_Witness ==
    /\ \E k \in Slots : ops[k].waited /\ ops[k].state = "FAILED"
                        /\ ops[k].wret = -ENOENT /\ ops[k].owner = "user"
    /\ t.pc = "io_fini" /\ ops[t.cur].state = "STABLE" /\ t.wrc = 0

HasCb(k) == ops[k].state # "FREE" /\ ops[k].cb

\* C12 as stated: an operation with a callback that has reached EXECUTED has
\* had its callback invoked exactly once.
C12_CallbackOnExecuted ==
    \A k \in Slots :
        (HasCb(k) /\ ops[k].state = "EXECUTED") => ops[k].ncb = 1

\* C12, amended: the callback of an operation is invoked exactly once, when
\* the operation reaches STABLE or FAILED, and not before; an operation
\* without a callback invokes none.
C12_CallbackOnceOnCompletion ==
    \A k \in Slots :
        /\ (HasCb(k) /\ ops[k].state \in InFlight) => ops[k].ncb = 0
        /\ (HasCb(k) /\ ops[k].state \in Terminal) => ops[k].ncb = 1
        /\ ~HasCb(k) => ops[k].ncb = 0

C12_Witness ==
    /\ \E k \in Slots : HasCb(k) /\ ops[k].state = "FAILED" /\ ops[k].ncb = 1
    /\ \E k \in Slots : HasCb(k) /\ ops[k].state = "STABLE" /\ ops[k].ncb = 1

\* C13: once the callback of an operation has been invoked and wait has
\* returned for it, the rc the callback got is the value wait returned.
C13_CallbackRcIsWaitRc ==
    \A k \in Slots :
        (HasCb(k) /\ ops[k].ncb > 0 /\ ops[k].waited) =>
            ops[k].cbrc = ops[k].wret

C13_Witness ==
    /\ \E k \in Slots : HasCb(k) /\ ops[k].waited /\ ops[k].state = "FAILED"
                        /\ ops[k].cbrc = -ENOENT /\ ops[k].wret = -ENOENT
    /\ \E k \in Slots : HasCb(k) /\ ops[k].waited /\ ops[k].state = "STABLE"
                        /\ ops[k].cbrc = 0

InitReturned == t.call = "io_op_init" /\ t.pc \in {"done", "user_submit"}

\* C14: io_op_init makes an operation for the types WRITE, READ and FREE
\* (unless the environment refuses the allocation or the backend operation,
\* which is never reported as -EINVAL); for any other type it returns
\* -EINVAL, allocates no operation, leaves *out as it was and leaves the
\* caller's vector full.
C14_InitRejectsOtherTypes ==
    InitReturned =>
        IF t.req.type \in {"WRITE", "READ", "FREE"}
        THEN /\ t.rc # -EINVAL
             /\ t.plan = 0 => t.rc = 0 /\ t.nops = 1 /\ t.cur # 0
        ELSE t.rc = -EINVAL /\ t.nops = 0 /\ t.cur = 0 /\ t.io.vec = "full"

C14_Witness ==
    /\ InitReturned /\ t.req.type = "OTHER" /\ t.rc = -EINVAL
    /\ \E k \in Slots : ops[k].state = "SUBMITTED" /\ ops[k].type = "FREE"

InitCalled == ds.last.call = "init"

\* The configured type names a registered backend, by the whole name.
NamesBackend(value) ==
    \E i \in 1 .. Len(dstore_modules) : value = dstore_modules[i].type

\* C15: dstore_init returns invalid-argument both when the configuration has
\* no dstore.type and when its value matches no registered backend, and in
\* neither case is a backend init called.
C15_InitInvalidArgument ==
    (InitCalled /\ (~ds.last.present \/ LookupOps(ds.last.value) = "NULL"))
        => /\ ds.last.outcome = "return"
           /\ ds.last.rc = -EINVAL
           /\ ds.ninit = ds.last.ninit

\* C16: a backend is selected exactly when the configured type is the whole
\* name of a registered backend: the empty string and a proper prefix of
\* the name select none.
C16_ExactNameMatch ==
    (InitCalled /\ ds.last.present)
        => (ds.dstore_ops # "NULL" <=> NamesBackend(ds.last.value))

DeleteCalled == ds.last.call = "delete"

\* C17: dstore_obj_delete returns what the backend's delete returned: the
\* not-found of a non-existing object comes back as not-found, never as
\* success.
C17_DeleteReturnsBackendRc ==
    DeleteCalled => /\ ds.last.rc = ds.last.back
                    /\ (ds.last.back = -ENOENT => ds.last.rc # 0)

\* An object that is not in the store was deleted: not-found came back.
C17_Witness ==
    DeleteCalled /\ ds.last.oid \notin ds.exists /\ ds.last.rc = -ENOENT

\* dstore_pread, dstore_pwrite or dstore_obj_resize has returned.
CallReturned == t.pc = "done" /\ t.call \in {"pread", "pwrite", "resize"}

UnalignedPwriteDone ==
    /\ t.pc = "done" /\ t.call = "pwrite"
    /\ ~(t.count % BS = 0 /\ t.offset % BS = 0)

\* The operations of the call that were WRITEs, and its READs that ended
\* with an rc that is neither success nor a hole.
TraceWrites == { i \in 1 .. Len(t.trace) : t.trace[i].type = "WRITE" }

TraceBadReads ==
    { i \in 1 .. Len(t.trace) :
        t.trace[i].type = "READ" /\ t.trace[i].rc \notin {0, -ENOENT} }

ReadAt(i, off) == t.trace[i].type = "READ" /\ t.trace[i].off = off

\* The edge reads pwrite_unaligned needs have all been made before
\* operation i.
EdgeReadsBefore(i) ==
    LET L == left_blk_num(t.offset, BS)
        R == right_blk_num(t.offset, t.count, BS)
    IN /\ t.offset % BS # 0 => \E j \in 1 .. i - 1 : ReadAt(j, L * BS)
       /\ ((t.offset + t.count) % BS # 0 /\ L # R)
              => \E j \in 1 .. i - 1 : ReadAt(j, R * BS)

\* C19: an unaligned write issues its one WRITE only after every edge read
\* it needs has succeeded; when the scratch allocation or an edge read
\* fails, no WRITE is issued, the object is as it was and the failing rc is
\* returned.
C19_UnalignedAllOrNothing ==
    UnalignedPwriteDone =>
        /\ \A i \in TraceWrites :
              /\ i = Len(t.trace)
              /\ TraceBadReads = {}
              /\ EdgeReadsBefore(i)
        /\ \A i \in TraceBadReads :
              /\ TraceWrites = {}
              /\ t.rc = t.trace[i].rc
        /\ t.plan = 1 => t.rc = -ENOMEM /\ t.trace = <<>>
        /\ TraceWrites = {} => t.rc # 0 /\ obj = t.pre

\* An unaligned write on an object that has data, whose edge read failed.
C19_Witness ==
    /\ UnalignedPwriteDone
    /\ t.pre # FreshObj
    /\ TraceBadReads # {}
    /\ TraceWrites = {}
    /\ t.rc = -EIO

\* dstore_pread or dstore_pwrite has returned.
IoCallDone == t.pc = "done" /\ t.call \in {"pread", "pwrite"}

\* The hole reader takes a READ that ended with -ENOENT for a hole and
\* recovers from it.
RecoveredHole(e) == e.type = "READ" /\ e.rc = -ENOENT

\* The operations of the call that ended with an rc the call does not
\* recover from.
TraceFailures ==
    { i \in 1 .. Len(t.trace) :
        t.trace[i].rc # 0 /\ ~RecoveredHole(t.trace[i]) }

\* C20: dstore_pread and dstore_pwrite return 0 only if every backend
\* operation they issued ended with 0 or was a recovered hole; otherwise
\* they return the rc of the first operation that failed, unchanged, and
\* issue no operation after it.
C20_FirstFailureReturned ==
    IoCallDone =>
        /\ t.rc = 0 => TraceFailures = {}
        /\ \A i \in TraceFailures :
              /\ i = Len(t.trace)
              /\ t.rc = t.trace[i].rc

\* A read that recovered from a hole and then met an operation that failed.
C20_Witness ==
    /\ IoCallDone /\ t.call = "pread"
    /\ t.pre # FreshObj
    /\ \E i \in 1 .. Len(t.trace) : RecoveredHole(t.trace[i])
    /\ TraceFailures # {}
    /\ t.rc = -EIO

\* dstore_obj_resize took the shrink path and has returned.
ShrinkDone == t.pc = "done" /\ t.call = "resize" /\ t.old > t.new

\* C21: when a zero-fill sub-write of a shrink fails, it is the last one
\* issued, the scratch buffer is freed and dstore_obj_resize returns its
\* error; the ranges of the sub-writes that succeeded before it stay zeroed.
C21_ShrinkAbortsOnFirstError ==
    ShrinkDone =>
        /\ t.sbuf = <<>>
        /\ \A i \in 1 .. Len(t.sw) :
              IF t.sw[i].rc # 0
              THEN i = Len(t.sw) /\ t.rc = t.sw[i].rc
                   /\ t.sw[i].ntrace = Len(t.trace)
              ELSE LogicalRange(obj, t.sw[i].off, t.sw[i].size)
                      = Zeros(t.sw[i].size)

\* A shrink over written bytes whose first sub-write succeeded and whose
\* second failed.
C21_Witness ==
    /\ ShrinkDone
    /\ Len(t.sw) = 2
    /\ t.sw[1].rc = 0 /\ t.sw[2].rc = -EIO
    /\ t.rc = -EIO
    /\ obj # t.pre


\* C22: calls on distinct objects do not interfere.  Two callers, each on an
\* object of its own, run their calls step by step in every interleaving:
\* when a call has returned, its return code, the bytes it read and the
\* content of its object are those of the same call running alone, and
\* between calls the object is as the caller's own calls alone leave it.
C22_DistinctObjectsIndependent ==
    \A c \in Callers :
        /\ two[c].t.pc = "done" =>
              /\ two[c].t.rc = two[c].exp.rc
              /\ two[c].t.rbuf = two[c].exp.rbuf
              /\ two[c].obj = two[c].exp.obj
        /\ two[c].t.pc = "idle" => two[c].obj = two[c].alone

\* Caller 1's pread has returned the bytes of its own object while caller
\* 2's pwrite, whose operation was made while caller 1's was alive, waits.
C22_Witness ==
    /\ two[1].t.pc = "done"
    /\ two[1].t.call = "pread"
    /\ two[1].t.rc = 0
    /\ two[1].t.rbuf = Payload(1, BS)
    /\ two[2].t.call = "pwrite"
    /\ two[2].t.pc = "io_wait"
    /\ two[2].t.cur = 2
    /\ two[2].obj # two[1].obj


\* dstore_pread of whole blocks has returned: the call is one call of
\* pread_aligned_handle_holes on the caller's buffer, whose first operation
\* is the read of the whole range.
AlignedPreadDone ==
    /\ PreadDone
    /\ t.offset % BS = 0 /\ t.count % BS = 0
    /\ Len(t.trace) >= 1

\* The hole reader entered its per-block fallback.
FallbackTaken == t.hh.phase = "blk"

\* The fallback of the hole reader read block i as operation j of the call.
FallbackRead(j, i) ==
    /\ j <= Len(t.trace)
    /\ t.trace[j].type = "READ"
    /\ t.trace[j].off = t.offset + i * BS
    /\ t.trace[j].size = BS

\* C23 as stated: the per-block fallback of the hole reader is taken only
\* when the first read returned -ENOENT and the request spans more than one
\* block; a single-block aligned read that gets -ENOENT returns -ENOENT.
C23_FallbackOnlyMultiBlock ==
    AlignedPreadDone =>
        /\ FallbackTaken =>
              t.trace[1].rc = -ENOENT /\ t.count \div BS > 1
        /\ (t.count = BS /\ t.trace[1].rc = -ENOENT) => t.rc = -ENOENT

\* C23 amended: the per-block fallback is taken exactly when the first read
\* returned -ENOENT, for a request of one block as for one of several; it
\* starts with the single-block read of block 0, and a single-block aligned
\* read whose retry gets -ENOENT again returns 0 with the block zero-filled.
C23_FallbackOnEveryHole ==
    AlignedPreadDone =>
        /\ FallbackTaken <=> (t.trace[1].rc = -ENOENT)
        /\ Len(t.trace) > 1 => FallbackTaken /\ FallbackRead(2, 0)
        /\ t.count = BS => Len(t.trace) <= 2
        /\ (t.count = BS /\ Len(t.trace) = 2 /\ t.trace[2].rc = -ENOENT) =>
              t.rc = 0 /\ t.rbuf = Zeros(BS)

\* A single-block aligned read of a hole in an object that has data: both
\* reads got -ENOENT and the call returned 0 and zeros.
C23_Witness ==
    /\ AlignedPreadDone
    /\ t.count = BS
    /\ t.pre # FreshObj
    /\ Len(t.trace) = 2
    /\ t.trace[1].rc = -ENOENT /\ t.trace[2].rc = -ENOENT
    /\ t.rc = 0 /\ t.rbuf = Zeros(BS)


\* Block i of the caller's read buffer.
ReadBlock(i) == BufGet(t.rbuf, i * BS, BS)

\* C24: in the hole reader an rc that is neither 0 nor -ENOENT is fatal and
\* returned unchanged.  When the first read of the whole range ends with
\* it, no block is retried.  When the retry of block i ends with it, no
\* later block is read, and every block retried before it holds in the
\* caller's buffer what its retry placed there: its data, or zeros for a
\* hole.
C24_OtherErrorsFatal ==
    AlignedPreadDone =>
        /\ t.trace[1].rc \notin {0, -ENOENT} =>
              Len(t.trace) = 1 /\ ~FallbackTaken /\ t.rc = t.trace[1].rc
        /\ \A j \in 2 .. Len(t.trace) :
              /\ FallbackRead(j, j - 2)
              /\ IF t.trace[j].rc \in {0, -ENOENT}
                 THEN ReadBlock(j - 2)
                         = LogicalRange(t.pre, t.offset + (j - 2) * BS, BS)
                 ELSE j = Len(t.trace) /\ t.rc = t.trace[j].rc

\* A read of two blocks, the first with data and the second a hole: the
\* retry of the first block delivered its data, the retry of the second
\* failed.
C24_Witness ==
    /\ AlignedPreadDone
    /\ t.count = 2 * BS
    /\ Len(t.trace) = 3
    /\ t.trace[1].rc = -ENOENT /\ t.trace[2].rc = 0 /\ t.trace[3].rc = -EIO
    /\ t.rc = -EIO
    /\ ReadBlock(0) # Zeros(BS)
    /\ ReadBlock(0) = LogicalRange(t.pre, t.offset, BS)


\* The blocks an unaligned write of the finished call's range touches, as
\* the range itself gives them.
FirstBlock == t.offset \div BS

LastBlock == (t.offset + t.count - 1) \div BS

\* C25: an unaligned pwrite of count > 0 bytes issues exactly one WRITE, of
\* N*bs bytes at offset L*bs with L = floor(offset/bs),
\* R = floor((offset+count-1)/bs) and N = R-L+1; the blocks L..R then hold
\* the payload at [offset, offset+count), and no block outside L..R has
\* changed.
C25_OneCoveringWrite ==
    (UnalignedPwriteDone /\ t.count > 0) =>
        /\ Cardinality(TraceWrites) = 1
        /\ \A i \in TraceWrites :
              /\ t.trace[i].off = FirstBlock * BS
              /\ t.trace[i].size = (LastBlock - FirstBlock + 1) * BS
        /\ t.rc = 0
        /\ LogicalRange(obj, t.offset, t.count) = t.wbuf
        /\ \A b \in Blocks :
              IF b \in FirstBlock .. LastBlock
              THEN obj[b] # <<>>
              ELSE obj[b] = t.pre[b]

\* An unaligned write that starts in block 0 and ends at the end of block
\* 1, on an object that has data in block 2.
C25_Witness ==
    /\ UnalignedPwriteDone
    /\ t.offset = 1 /\ t.count = 2 * BS - 1
    /\ t.pre[2] # <<>>
    /\ obj[2] = t.pre[2]
    /\ Cardinality(TraceWrites) = 1
    /\ LogicalRange(obj, t.offset, t.count) = t.wbuf


\* The READs of the finished call, and the blocks they read.
TraceReads == { i \in 1 .. Len(t.trace) : t.trace[i].type = "READ" }

BlocksRead == { t.trace[i].off \div BS : i \in TraceReads }

\* The edge blocks an unaligned write of the finished call's range has to
\* read.
LeftEdge == IF t.offset % BS # 0 THEN {FirstBlock} ELSE {}

RightEdge ==
    IF (t.offset + t.count) % BS # 0 /\ FirstBlock # LastBlock
    THEN {LastBlock} ELSE {}

\* C26: an unaligned pwrite reads block L, before its write, if and only if
\* offset % bs # 0, and block R if and only if (offset+count) % bs # 0 and
\* L # R; every read is of one whole block, and no other block, interior or
\* outside L..R, is read.
C26_EdgeReadsOnly ==
    UnalignedPwriteDone =>
        /\ BlocksRead = LeftEdge \cup RightEdge
        /\ \A i \in TraceReads :
              /\ t.trace[i].size = BS
              /\ t.trace[i].off % BS = 0
              /\ \A j \in TraceWrites : i < j

\* A write from inside block 0 to inside block 2 of an object that has data
\* in all three blocks: blocks 0 and 2 are read, block 1 is not.
C26_Witness ==
    /\ UnalignedPwriteDone
    /\ t.offset = 1 /\ t.count = 2 * BS
    /\ \A b \in Blocks : t.pre[b] # <<>>
    /\ BlocksRead = {0, 2}
    /\ t.rc = 0


\* An unaligned pwrite inside one block has returned.
SingleBlockPwriteDone ==
    /\ UnalignedPwriteDone
    /\ FirstBlock = LastBlock
    /\ t.count < BS

\* C27: an unaligned pwrite that lies inside a single block reads block L
\* once as its only edge read, so the block written back holds the block's
\* earlier content on both sides of the payload.
C27_SingleBlockLeftRead ==
    SingleBlockPwriteDone =>
        /\ BlocksRead = {FirstBlock}
        /\ \A p \in (FirstBlock * BS) .. (FirstBlock * BS + BS - 1) :
              (p < t.offset \/ p >= t.offset + t.count)
                  => LogicalByte(obj, p) = LogicalByte(t.pre, p)


\* The range of the finished call is made of whole blocks.
AlignedRange == t.offset % BS = 0 /\ t.count % BS = 0

\* C28: dstore_pwrite and dstore_pread take the aligned path if and only if
\* offset and count are both multiples of bs.  An aligned pwrite is one
\* WRITE of count bytes at offset out of the caller's buffer, with no READ
\* and no scratch buffer; an aligned pread is the hole reader on the
\* caller's buffer for the range asked for, with no scratch buffer; every
\* other range goes through a scratch buffer.
C28_AlignedDispatch ==
    /\ (t.pc = "done" /\ t.call = "pwrite") =>
          IF AlignedRange
          THEN /\ t.trace = <<[type |-> "WRITE", off |-> t.offset,
                               size |-> t.count, rc |-> 0]>>
               /\ t.req.buf = "wbuf" /\ t.req.pos = 0
               /\ t.nscr = 0
               /\ t.hh.phase = "none"
          ELSE t.nscr = 1 /\ t.req.buf = "tmp"
    /\ PreadDone =>
          IF AlignedRange
          THEN /\ t.nscr = 0
               /\ t.hh.ret = "pread" /\ t.hh.buf = "rbuf" /\ t.hh.pos = 0
               /\ t.hh.off = t.offset /\ t.hh.size = t.count
               /\ t.req.buf = "rbuf"
               /\ TraceReads = 1 .. Len(t.trace)
               /\ t.trace[1].off = t.offset /\ t.trace[1].size = t.count
          ELSE t.nscr = 1 /\ t.hh.ret # "pread"

\* An aligned write of two blocks over written data.
C28_Witness ==
    /\ t.pc = "done" /\ t.call = "pwrite"
    /\ AlignedRange
    /\ t.count = 2 * BS
    /\ t.pre[t.offset \div BS] # <<>>
    /\ Len(t.trace) = 1
    /\ t.nscr = 0
    /\ LogicalRange(obj, t.offset, t.count) = t.wbuf


\* The whole chunks and the remainder of the range a finished shrink cut.
ShrinkChunks == (t.old - t.new) \div DSAL_MAX_IO_SIZE

ShrinkRemainder == (t.old - t.new) % DSAL_MAX_IO_SIZE

\* C29: a shrink from old_size to new_size issues
\* floor((old_size - new_size) / DSAL_MAX_IO_SIZE) pwrites of
\* DSAL_MAX_IO_SIZE bytes and then one pwrite of the remainder if and only
\* if the remainder is not zero; the sub-writes go up from new_size, each
\* starting where the one before ended, and cover [new_size, old_size).
C29_ShrinkChunking ==
    ShrinkDone =>
        /\ Len(t.sw) = ShrinkChunks + (IF ShrinkRemainder # 0 THEN 1 ELSE 0)
        /\ \A i \in 1 .. Len(t.sw) :
              /\ t.sw[i].size = IF i <= ShrinkChunks THEN DSAL_MAX_IO_SIZE
                                                     ELSE ShrinkRemainder
              /\ t.sw[i].off = IF i = 1 THEN t.new
                                        ELSE t.sw[i - 1].off + t.sw[i - 1].size
        /\ t.sw[Len(t.sw)].off + t.sw[Len(t.sw)].size = t.old

\* A shrink of two whole chunks and a remainder.
C29_Witness ==
    /\ ShrinkDone
    /\ t.rc = 0
    /\ Len(t.sw) = 3
    /\ ShrinkChunks = 2 /\ ShrinkRemainder # 0
    /\ t.pre # FreshObj


\* C30: a shrink that succeeded changed only the range it cut: every byte
\* below new_size and every byte at or above old_size reads back as it did
\* before the shrink.
C30_ShrinkKeepsTheRest ==
    (ShrinkDone /\ t.rc = 0) =>
        \A p \in 0 .. (ObjBytes - 1) :
            (p < t.new \/ p >= t.old)
                => LogicalByte(obj, p) = LogicalByte(t.pre, p)


\* The block-size lookup of the finished shrink returned the backend's
\* error, which dstore_obj_shrink holds in a size_t.
BsizeLookupFailed == ShrinkDone /\ t.sh.bsize = W32 * W32 - EIO

\* C31: when the block-size lookup at the start of a shrink returns a
\* negative error, dstore_obj_resize returns that error and has issued no
\* read and no write against the object.
C31_ShrinkAbortsOnBsizeError ==
    BsizeLookupFailed =>
        /\ t.rc = -EIO
        /\ t.trace = <<>>
        /\ obj = t.pre


\* The finished call is one whose scratch allocation the environment
\* refused: the calloc is the first thing pwrite_unaligned and
\* pread_unaligned ask of it, and the second thing, after the block-size
\* lookup, that dstore_obj_shrink asks.
ScratchAllocRefused ==
    /\ t.pc = "done"
    /\ \/ t.call \in {"pwrite", "pread"} /\ ~AlignedRange /\ t.plan = 1
       \/ t.call = "resize" /\ t.old > t.new /\ t.plan = 2

C33_PreadLeavesObject ==
    PreadDone =>
        /\ TraceReads = 1 .. Len(t.trace)
        /\ obj = t.pre

\* An unaligned read over data and a hole that ended with an error after
\* the hole fallback.
C33_Witness ==
    /\ PreadDone
    /\ ~AlignedRange
    /\ t.pre # FreshObj
    /\ \E i \in 1 .. Len(t.trace) : RecoveredHole(t.trace[i])
    /\ Len(t.trace) >= 3
    /\ t.rc = -EIO
    /\ obj = t.pre


\* The positions of the caller's read buffer that hold something the call
\* put there.
BytesPlaced == { i \in 1 .. Len(t.rbuf) : t.rbuf[i] # Poison }

\* C34: dstore_pread stays inside the caller's buffer.  Over the left
\* partial, interior and right partial segments and the per-block fallback
\* of the hole reader, a call that succeeds has placed exactly the bytes
\* buf[0 .. count), a call that fails has placed some of them, no byte at
\* index count or above is ever written, and pread_unaligned calls the hole
\* reader at most three times.
C34_PreadInsideBuffer ==
    (PreadDone /\ t.count > 0) =>
        /\ Len(t.rbuf) = t.count
        /\ t.rc = 0 => BytesPlaced = 1 .. t.count
        /\ BytesPlaced \subseteq 1 .. t.count
        /\ t.nhh <= (IF AlignedRange THEN 1 ELSE 3)

\* A read with a left partial, an interior and a right partial segment
\* whose third call of the hole reader failed: the first two segments
\* are in the buffer, the last byte is not.
C34_Witness ==
    /\ PreadDone
    /\ t.offset % BS # 0
    /\ t.nhh = 3
    /\ t.rc = -EIO
    /\ BytesPlaced = 1 .. (t.count - 1)
    /\ t.pre # FreshObj


\* The operations of the facade that are initialised and not finalised.
FacadeLive == { k \in Slots : ops[k].state # "FREE" /\ ops[k].owner = "facade" }

\* C35: within a call the facade has at most one live IO operation: it is
\* the one the running pread_aligned/pwrite_aligned holds, every operation
\* made before it has been waited for and finalised, and a new one is
\* initialised only when none is live, so the operations end in the order
\* they were submitted.
C35_OneLiveOperation ==
    /\ Cardinality(FacadeLive) <= 1
    /\ t.call \in {"pread", "pwrite", "resize"} =>
          /\ FacadeLive = (IF t.cur = 0 THEN {} ELSE {t.cur})
          /\ t.nops - t.nfini = Cardinality(FacadeLive)
          /\ t.pc \in {"io_init", "done"} => FacadeLive = {}
          /\ Len(t.trace) \in {t.nfini, t.nfini + 1}
    /\ t.call \notin {"pread", "pwrite", "resize"} => FacadeLive = {}

\* The second operation of a call is in flight and the first is finalised.
C35_Witness ==
    /\ t.pc = "io_wait"
    /\ t.nops = 2 /\ t.nfini = 1
    /\ Len(t.trace) = 1
    /\ Cardinality(FacadeLive) = 1
    /\ \A k \in FacadeLive : ops[k].state = "SUBMITTED"


\* Both concurrent writes to the shared object have returned 0.
BothWritten ==
    \A c \in Callers :
        two[c].t.pc = "done" /\ two[c].t.call = "pwrite" /\ two[c].t.rc = 0

\* The bytes caller c wrote, and whether the object still holds its payload.
RangeOf(c) == two[c].t.offset .. (two[c].t.offset + two[c].t.count - 1)

Kept(c) ==
    LogicalRange(obj, two[c].t.offset, two[c].t.count) = two[c].t.wbuf

\* Byte p of the block caller c wrote back: its payload inside its range,
\* outside it what its edge read saw, or the zeros of calloc when it read
\* nothing.
ImageOf(c, p) ==
    IF p \in RangeOf(c) THEN two[c].t.wbuf[p - two[c].t.offset + 1]
    ELSE IF two[c].t.offset % BS # 0 THEN LogicalByte(two[c].saw, p)
    ELSE 0

\* C36: the unaligned read-modify-write is not atomic.  When two callers
\* write into one block at the same time, the block ends up as the caller
\* whose write was executed last wrote it back: its payload in the frame
\* its edge read saw.  If the other caller's write came between that read
\* and that write, the other caller's bytes are gone, replaced by what was
\* there before.
C36_LastWriterOverwrites ==
    BothWritten =>
        \A c \in Callers :
            two[c].wseq = 2 =>
                /\ \A p \in 0 .. (BS - 1) : LogicalByte(obj, p) = ImageOf(c, p)
                /\ two[c].stale =>
                      \A d \in Callers \ {c} : \A p \in RangeOf(d) \ RangeOf(c) :
                          LogicalByte(obj, p) =
                              (IF two[c].t.offset % BS # 0
                               THEN LogicalByte(two[c].saw, p) ELSE 0)

\* The lost update: the callers wrote disjoint bytes of the block, each
\* with an edge read, both edge reads came before either write, and the
\* block is as neither serial order leaves it: caller 1's bytes are lost.
C36_Witness ==
    /\ BothWritten
    /\ RangeOf(1) \cap RangeOf(2) = {}
    /\ two[1].t.offset % BS # 0 /\ two[2].t.offset % BS # 0
    /\ two[2].wseq = 2 /\ two[2].stale
    /\ two[1].stale = FALSE
    /\ Kept(2) /\ ~Kept(1)
    /\ obj # two[1].alone /\ obj # two[2].alone


\* The caller is inside dstore_pread, dstore_pwrite or dstore_obj_resize.
InsideCall ==
    t.call \in {"pread", "pwrite", "resize"} /\ t.pc \notin {"idle", "done"}

\* C37: provided the calling thread runs and every submitted operation
\* reaches STABLE or FAILED, every dstore_pread, dstore_pwrite and
\* dstore_obj_resize call returns; the wait for an operation is the only
\* step that depends on anything but the caller.
C37_CallsReturn == InsideCall ~> CallReturned

\* A call whose operation the backend failed has returned the error.
C37_Witness ==
    /\ CallReturned
    /\ t.plan > 0
    /\ Len(t.trace) >= 1
    /\ t.trace[Len(t.trace)].rc = -EIO
    /\ t.rc = -EIO


\* dstore_obj_open has returned 0.
Opened == hnd.last = "open" /\ hnd.rc = 0

\* A call on the open handle, or its close, went through a dstore_ops table.
Dispatched == hnd.last \in {"io_op_init", "io_op_wait", "io_op_fini", "close"}

\* C38: a successful dstore_obj_open hands out a handle whose DataStore is
\* the one passed in and whose OID is the one asked for, and every later
\* operation on the handle, close included, goes through that DataStore's
\* operations table.
C38_HandleBackReference ==
    /\ Opened => /\ hnd.st = "open" /\ hnd.out = "obj"
                 /\ hnd.ds = hnd.want_ds
                 /\ hnd.oid = hnd.want_oid
    /\ hnd.st = "open" => hnd.ds = hnd.want_ds /\ hnd.oid = hnd.want_oid
    /\ Dispatched => hnd.via = hnd.want_ds

\* A handle of another DataStore than the process's own, closed after all
\* its operations.
C38_Witness ==
    /\ hnd.last = "close"
    /\ hnd.want_ds # g_dstore
    /\ hnd.want_oid = MaxOids
    /\ hnd.nio = MaxHandleOps
    /\ hnd.via = hnd.want_ds


\* cortx_ds_io_op_init called by the caller has returned an error.
InitFailed == t.call = "io_op_init" /\ t.pc = "done" /\ t.rc # 0

\* C39: when cortx_ds_io_op_init returns an error, whatever the reason, the
\* caller's vector still owns its arrays.
C39_FailedInitKeepsVector == InitFailed => t.io.vec = "full"


\* C40: the block numbers, the block count, the buffer position and the
\* loop counter of pwrite_unaligned, pread_unaligned and
\* pread_aligned_handle_holes are the mathematical values, for every offset
\* and count.
C40_BlockArithmeticExact ==
    /\ prev.call = "pwrite_unaligned" =>
          /\ prev.left = prev.offset \div prev.bs
          /\ prev.right = (prev.offset + prev.count - 1) \div prev.bs
          /\ prev.nblks = (prev.offset + prev.count - 1) \div prev.bs
                            - prev.offset \div prev.bs + 1
          /\ prev.pos = prev.offset - (prev.offset \div prev.bs) * prev.bs
    /\ prev.call = "pread_unaligned" =>
          /\ prev.left = prev.offset \div prev.bs
          /\ prev.pos = prev.offset - (prev.offset \div prev.bs) * prev.bs
          /\ prev.nblks = prev.count \div prev.bs
    /\ prev.call = "pread_aligned_handle_holes" =>
          prev.loop = prev.count \div prev.bs

====
